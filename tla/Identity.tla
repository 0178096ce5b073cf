------------------------------ MODULE Identity ------------------------------
(***************************************************************************)
(* Who a caller is: internal/auth/auth.go as app.Build sets it up, and the *)
(* rules by which the channels turn a key and a claimed user id into a     *)
(* user.  They differ from endpoint to endpoint.                           *)
(***************************************************************************)
CONSTANTS Auth,    \* "none": no key configured; "apikey": one key, the owner's
          Owner    \* cfg.OwnerID

\* The error of a refused credential.
Unauthorised == "unauthorised"

ASSUME IdentityAssumption ==
  /\ Auth \in {"none", "apikey"}
  /\ Owner \notin {"", Unauthorised}

Key == {"", "valid", "wrong"}

\* NoAuth.Authenticate names everybody anonymous, whatever the key;
\* APIKeyAuth.Authenticate looks the key up.
Authenticate(key) ==
  CASE Auth = "none" -> "anonymous"
    [] Auth = "apikey" -> IF key = "valid" THEN Owner ELSE Unauthorised

OrAnonymous(user) == IF user = "" THEN "anonymous" ELSE user

\* The empty user stands for a refused key.
authenticatedUserID(key) ==
  IF Authenticate(key) = Unauthorised THEN "" ELSE Authenticate(key)

\* POST /api/chat: a key, if there is one, decides.
ChatUser(key, claim) ==
  IF key # "" THEN Authenticate(key) ELSE OrAnonymous(claim)

\* Fault: the claim comes first.
StreamUserClaimFirst(key, claim) ==
  OrAnonymous(IF claim # "" THEN claim ELSE authenticatedUserID(key))

\* GET /api/chat/stream: the authenticator first, then the claim.
StreamUser(key, claim) ==
  LET user == authenticatedUserID(key)
  IN OrAnonymous(IF user = "" THEN claim ELSE user)

\* The gate endpoints: the claim first, then the authenticator.
GateUser(key, claim) ==
  OrAnonymous(IF claim # "" THEN claim ELSE authenticatedUserID(key))

\* GET /api/history/threads takes no claim.
HistoryUser(key) == OrAnonymous(authenticatedUserID(key))

\* A websocket message: Build always sets an authenticator, so the user id in the
\* message never counts; an empty user becomes the connection's id.
SocketUser(key, conn) ==
  IF Authenticate(key) = "" THEN conn ELSE Authenticate(key)

\* A webhook payload.
WebhookUser(claim) == IF claim = "" THEN "webhook" ELSE claim

-----------------------------------------------------------------------------
(* Properties.                                                             *)

\* A caller who shows the key and claims no other name is one and the same user
\* to every endpoint: the chat, the event stream, the gates and the history it
\* sees belong together.
KeyHolderIsOneUser ==
  LET user == ChatUser("valid", "")
  IN /\ StreamUser("valid", "") = user
     /\ GateUser("valid", "") = user
     /\ HistoryUser("valid") = user
     /\ SocketUser("valid", "conn") = user
=============================================================================
