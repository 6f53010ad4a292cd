\* Two descriptors and two waiting sensors; connect() may return anything.
CONSTANTS
  MaxListenIterationsCount = 5
  MaxDescriptors = 2
  MaxBacklog = 2
  AcceptReturns = {"EAGAIN", "OTHER"}
SPECIFICATION Spec
INVARIANTS
  PublishesOnlyWhenReady
  ConnectedFlagFollowsState
  MqttClosedBeforeNetwork
PROPERTIES
  IdleSinkExits
  MqttConnectResumes
