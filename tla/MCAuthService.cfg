SPECIFICATION Spec
CONSTANTS
  Users = {alice, bob}
  NoUser = NoUser
  MaxIdentity = 2
  MaxPrekey = 2
  MaxToken = 3
SYMMETRY Symmetry
INVARIANTS
  TypeOK
  IdentityWhole
  PublishedIdentityDurable
  KeyedSessionUsable
  SessionBacked
  ContextIsLive
  FreshLoginSurvivesRestart
PROPERTIES
  LogoutForgets
  KeepsDeviceIdentity
