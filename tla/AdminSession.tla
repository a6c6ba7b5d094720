------------------------------- MODULE AdminSession -------------------------------
(***************************************************************************)
(* Sessions of administrators: a signed cookie and a row of admin_sessions *)
(* that must both hold for a request.  The tabs of a browser share its     *)
(* cookies, and each has a request under way while another logs out or in. *)
(*                                                                         *)
(* A request is one to read, or one that changes something, which shows a  *)
(* CSRF token of its session beside the cookie.  The proxy in front of the *)
(* pages looks at the signature alone; the page asks for the row as well.  *)
(***************************************************************************)
EXTENDS Naturals

CONSTANTS Tab,        \* tabs of one browser
          MaxSession  \* bound: sessions issued

VARIABLES issued,   \* the last session that was issued
          rows,     \* sessions that have a row
          cookie,   \* the session of the browser's cookie, or 0
          page,     \* page[t]: the session whose CSRF token the page shows
          request   \* request[t]: the request of the tab

vars == <<issued, rows, cookie, page, request>>

-----------------------------------------------------------------------------
Session == 1..MaxSession
MaybeSession == 0..MaxSession
Idle == [pc |-> "idle", session |-> 0, reads |-> FALSE, late |-> FALSE]

TypeOK ==
    /\ issued \in MaybeSession /\ rows \subseteq 1..issued
    /\ cookie \in 0..issued
    /\ page \in [Tab -> MaybeSession]
    /\ request \in [Tab -> [pc : {"idle", "verified", "served"}, session : MaybeSession,
                            reads : BOOLEAN, late : BOOLEAN]]

Init == /\ issued = 0 /\ rows = {} /\ cookie = 0
        /\ page = [t \in Tab |-> 0]
        /\ request = [t \in Tab |-> Idle]

\* createAdminSession, persistAdminSession, and the cookies unless they are lost.
Login ==
    /\ issued < MaxSession
    /\ issued' = issued + 1
    /\ rows' = rows \cup {issued'}
    /\ cookie' \in {cookie, issued'}
    /\ UNCHANGED <<page, request>>

\* The session ends by its age: the cookie's own date and the row's agree.
Expire(s) ==
    /\ s \in rows
    /\ rows' = rows \ {s}
    /\ cookie' = IF cookie = s THEN 0 ELSE cookie
    /\ page' = [t \in Tab |-> IF page[t] = s THEN 0 ELSE page[t]]
    /\ request' = [t \in Tab |-> IF request[t].session = s THEN Idle ELSE request[t]]
    /\ UNCHANGED issued

\* The browser shows a cookie, with a signature that holds and a date to come.
Signed == cookie # 0

\* requireAdminPage, behind the proxy: the page takes the CSRF token of the cookie.
OpenPage(t) ==
    /\ Signed /\ cookie \in rows
    /\ page' = [page EXCEPT ![t] = cookie]
    /\ UNCHANGED <<issued, rows, cookie, request>>

\* verifyCsrfRequest: the origin, the signed cookie, and the token of the page
\* for what changes something (sessionFromRequest for what does not).
Begin(t) ==
    /\ request[t] = Idle /\ Signed
    /\ \E reads \in BOOLEAN :
         /\ reads \/ page[t] = cookie
         /\ request' = [request EXCEPT ![t] =
              [pc |-> "verified", session |-> cookie, reads |-> reads, late |-> cookie \notin rows]]
    /\ UNCHANGED <<issued, rows, cookie, page>>

\* A bug for the mutants: the signature of the cookie is enough.
SignatureSuffices(s) == s # 0

\* isAdminSessionActive
Active(s) == s \in rows

Check(t) ==
    /\ request[t].pc = "verified"
    /\ request' = [request EXCEPT ![t] = IF Active(request[t].session)
                                         THEN [@ EXCEPT !.pc = "served"] ELSE Idle]
    /\ UNCHANGED <<issued, rows, cookie, page>>

\* The work of a request that was let in.  Of one that may change something it
\* can be to log out: the answer takes the cookies away, whichever they have
\* become, unless it is lost.
Serve(t) ==
    /\ request[t].pc = "served"
    /\ request' = [request EXCEPT ![t] = Idle]
    /\ \/ UNCHANGED <<rows, cookie>>
       \/ /\ ~request[t].reads
          /\ rows' = rows \ {request[t].session} /\ cookie' \in {cookie, 0}
    /\ UNCHANGED <<issued, page>>

Next == \/ Login
        \/ \E s \in Session : Expire(s)
        \/ \E t \in Tab : OpenPage(t) \/ Begin(t) \/ Check(t) \/ Serve(t)

Spec == Init /\ [][Next]_vars

-----------------------------------------------------------------------------
\* Logged out in one tab, logged out in all: no request that begins after its
\* session was revoked is served, however the tabs' requests and logins overlap.
RevokedIsShut == \A t \in Tab : request[t].pc = "served" => ~request[t].late
=============================================================================
