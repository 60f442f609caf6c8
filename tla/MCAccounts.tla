----------------------------- MODULE MCAccounts -----------------------------
EXTENDS Accounts, TLC

MCRoles == {"admin", "owner"}

\* Ownership.
Ownership == {{"create", "update", "delete"}}

\* And access and its revocation, and second factors.
MCWorkloads ==
  Ownership \cup
  {{"step_up", "change_password", "update"},
   {"change_password", "rotate_password", "revoke_sessions"},
   {"logout", "revoke_others", "revoke_other", "revoke_session"},
   {"step_up", "enable_totp", "regenerate"},
   {"enable_totp", "regenerate", "confirm"},
   {"setup_totp", "enable_totp", "disable_totp"}}

Symmetry == Permutations(Users) \cup Permutations(Sessions) \cup Permutations(Threads)
=============================================================================
