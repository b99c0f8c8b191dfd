SPECIFICATION Spec
CONSTANTS
  None = None
  MaxId = 3
  Device <- MCDevice
  Urls <- MCUrls
  Served <- MCServed
  RemoteLinks <- MCRemoteLinks
  Links <- MCLinks
  Lines <- MCLines
  Stores <- MCStores
INVARIANTS EditorKeepsRules ShareKeepsRules CurrentExists StoreObeysUser CacheMatchesRow
