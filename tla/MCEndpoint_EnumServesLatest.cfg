CONSTANTS
  ParamIds <- MCParamIds
  Pods <- MCPods
  MaxInfoParams = 1
  MaxInfos = 2
  MaxChanges = 1
  MaxPodsPerId = 1
  MaxParams = 1
SPECIFICATION Spec
\* The endpoint's life ends: once both objects are destroyed, or the
\* client has sent all it is bounded to and everything is handled,
\* nothing is left to do; nor once the server has crashed in event_info.
CHECK_DEADLOCK FALSE
INVARIANT EnumServesLatest
