SPECIFICATION Spec
CONSTANTS
  Sizes = {4, 9}
  SeamFrames = 2
  ChunkFrames = 3
  MaxBlock = 5
  Devices = {1, 2}
  Default <- MCDefault
  Native <- MCNative
  Takes <- MCTakes
  SampleRate = 48
  FramesPerBuffer = 2
  ScratchFrames = 2
  MaxEvents = 3
INVARIANTS TypeOK StreamInHand BlockIsOneRead
CHECK_DEADLOCK FALSE
