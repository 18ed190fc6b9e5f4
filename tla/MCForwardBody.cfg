SPECIFICATION Spec
CONSTANTS
  Hosts <- MCHosts
  Allowed = {"corp"}
  Blocked = {"ads"}
  AuthEnabled = TRUE
  AllowConnect = TRUE
  Account <- MCAccount
  Replies <- MCReplies
  MaxBytes = 3
INVARIANT BodiesAreForwarded
CHECK_DEADLOCK FALSE
