SPECIFICATION FairSpec
CONSTANTS
  t1 = t1
  t2 = t2
  near = near
  far = far
  cast = cast
  Sender = {t1, t2}
  Connector = app
  Peer = {near, far}
  Bridge = {near, far}
  Broadcast = cast
  NoAddr = NoAddr
  Destination = {near, far, NoAddr}
  Bucket = {1, 2, 3}
  BucketOf <- Apart
  LastChannel = 2
  BridgeChannel <- Channels
  Signal <- Signals
  LateAnswers = FALSE
  Free = Free
INVARIANT TypeOK OneWaiterPerBucket FrameHasItsWaiter RadioFollowsBridge
PROPERTY ScanUndisturbed LocksReleased
