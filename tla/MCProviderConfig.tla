--------------------------- MODULE MCProviderConfig ---------------------------
(* Small instances of the accounting of a configuration. *)
EXTENDS ProviderConfig

CONSTANTS u1, u2

OneUser == {u1}
TwoUsers == {u1, u2}

Credentials(url, token, login) == [url |-> url, token |-> token, login |-> login]

\* A password; an expired token beside it; a valid token; a wrong password; no
\* URL; nothing.
SixSecrets == { Credentials(TRUE, "none", "right"), Credentials(TRUE, "expired", "right"),
                Credentials(TRUE, "valid", "none"), Credentials(TRUE, "none", "wrong"),
                Credentials(FALSE, "none", "right"), NoSecret }
=============================================================================
