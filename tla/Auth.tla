-------------------------------- MODULE Auth --------------------------------
(***************************************************************************)
(* Who a request comes from (auth.py).  The headers of a request are a     *)
(* record: the scheme of Authorization, the user name and the token or     *)
(* password in it, and X-Orchestro-Requester; None for what is absent,     *)
(* empty or unreadable.                                                    *)
(***************************************************************************)
CONSTANTS
  MeshToken,   \* mesh_token, or None
  ApiTokens,   \* api_tokens: a function from tokens to requester names
  None

Schemes == {"bearer", "basic", "other"}

Bearer(h) == IF h.scheme = "bearer" THEN h.token ELSE None
BasicUser(h) == IF h.scheme = "basic" THEN h.user ELSE None
BasicPassword(h) == IF h.scheme = "basic" THEN h.token ELSE None

Presented(h) == IF Bearer(h) = None THEN BasicPassword(h) ELSE Bearer(h)

(* The name a request claims, where the token does not decide. *)
Claimed(h) ==
  IF BasicUser(h) # None THEN BasicUser(h)
  ELSE IF h.requester # None THEN h.requester ELSE "anonymous"

(* Fault: the user name of the request wins over that of its token. *)
RequesterClaimed(h) ==
  IF DOMAIN ApiTokens # {}
  THEN IF Presented(h) \in DOMAIN ApiTokens THEN Claimed(h) ELSE None
  ELSE IF MeshToken # None /\ Presented(h) # MeshToken THEN None
  ELSE Claimed(h)

(* The requester's name, or None for a 401. *)
Requester(h) ==
  IF DOMAIN ApiTokens # {}
  THEN IF Presented(h) \in DOMAIN ApiTokens THEN ApiTokens[Presented(h)] ELSE None
  ELSE IF MeshToken # None /\ Presented(h) # MeshToken THEN None
  ELSE Claimed(h)
==============================================================================
