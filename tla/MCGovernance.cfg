\* The governed life of what is run: the calls of a plan in the Plugin ledger,
\* one Plugin installation, the scopes of its authority, the release channel,
\* the registry, the published catalog and certification.
SPECIFICATION SuiteSpec
CONSTANTS
  None = None
  Releases = {"r1", "r2"}
  Contents <- SharedContents
  Certifies <- SuiteCloses
  Verified = {"r1", "r2"}
  Txns = {"t1", "t2"}
  MaxEvals = 4
  MaxDecisions = 3
  MaxHistory = 1
INVARIANTS
  ChannelIsGoverned
PROPERTIES
  RegistryIsFrozen
  CallsAreGoverned
  InstallationIsProbed
  CatalogIsDecidedOnce
  CertificationIsSound
CHECK_DEADLOCK FALSE
