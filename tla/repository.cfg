SPECIFICATION FairSpec
CONSTANTS
  app = app
  tool = tool
  os = os
  other = other
  root = root
  dev = dev
  content = content
  extra = extra
  dA = dA
  dB = dB
  Newest = 2
  Strays = {9}
  Images = {app, tool, os, other}
  Inline <- MCInline
  Delegated <- MCDelegated
  Names <- MCNames
  DelegationsOf <- MCDelegationsOf
  Manifested <- MCManifested
  Bundle <- MCBundle
  Roles <- MCRoles
  Authorised <- MCAuthorised
  Threshold <- MCThreshold
  SignedBy <- MCSignedBy
  ContentKeys <- MCContentKeys
  ContentThreshold <- MCContentThreshold
  Blocks = 2
  Modes = {TRUE, FALSE}
  Servers = {TRUE, FALSE}
  Systems = {TRUE, FALSE}
  MaxFaults = 2
  MaxCrashes = 1
  NONE = NONE
CHECK_DEADLOCK FALSE
INVARIANT TypeOK
PROPERTIES Delivers PrefixKept StagesWhatItVerified Converges
