SPECIFICATION Spec
CONSTANT Programs = {"rpx", "rpx_s", "rpx_l", "rpx_p", "test_s", "test_p"}
INVARIANTS TypeOK UsesWhatIsThere Streaming LeavesNothingOpen
PROPERTY FollowsProtocol
CHECK_DEADLOCK FALSE
