SPECIFICATION GatesSpec
CONSTANTS
  Home = {"public", "sales"}
  Public = "public"
  NoHome = "none"
  Name = {"orders", "users", "recent"}
  Catalog <- MCCatalog
  Written <- MCWritten
  MaxAvailable = 5
  MaxRows = 4
  LongResult = 3
  PreviewRows = 2
  Collection <- MCCollection
  Short <- MCShort
  NoName = "none"
  Documents = 6
  Fanout = 2
  Unlimited = Unlimited
  MongoWritten <- MCMongoWritten
INVARIANT OnlyReadsRun
