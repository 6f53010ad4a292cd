\* The listening attempts when descriptors run out.
CONSTANTS
  MaxListenIterationsCount = 2
  MaxDescriptors = 2
  MaxBacklog = 2
  AcceptReturns = {"OTHER"}
SPECIFICATION Spec
PROPERTY
  ListeningAttemptsEnd
