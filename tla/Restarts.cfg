CONSTANTS
  web = web
  api = api
  db = db
  app = app
  probe = probe
  idle = idle
  Containers = {web, api, db}
  DockerMonitors = {app}
  HealthMonitors = {probe, idle}
  Unregistered = {"nobody"}
  List <- MCList
  Allowed = {web, api}
  Threshold <- MCThreshold
  None = None
  Gone = Gone
  MaxCount = 2
SPECIFICATION Spec
INVARIANTS TypeOK RestartIsExact MissingIsReported StatusIsWitnessed
