CONSTANTS
  ParamIds <- MCParamIds
  Pods <- MCPods
  MaxInfoParams = 2
  MaxInfos = 1
  MaxChanges = 0
  MaxPodsPerId = 1
  MaxParams = 1
SPECIFICATION Spec
INVARIANT ChangedIdsFit
