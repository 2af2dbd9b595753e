------------------------------- MODULE Session -------------------------------
(***************************************************************************)
(* Signing in to the web console and out of it (frontend/src/auth,         *)
(* pages/LoginPage.tsx, the shell of components/AppShell.tsx and the       *)
(* enrolment wizard of security/): the session the server holds for this   *)
(* browser, the ["me"] query that decides what is rendered, the steps of   *)
(* the login page, the forced enrolment gate, and the MFA page, which      *)
(* stands for every page of the console that shows cached data.            *)
(***************************************************************************)
EXTENDS Naturals

CONSTANTS MaxLogins,    \* how many sessions the user opens
          MaxFaults     \* how many answers are lost or replaced by an error

VARIABLES session,   \* the server's: "none", "pending" (second factor due), "setup", "full"
          logins,    \* the number of the session
          enrolled,  \* the account has a second factor
          required,  \* policy: accounts without one must enrol
          faults,
          me,        \* ["me"]: [data, fetch, attached]; attached: in the cache
          route,     \* "login" or "app"
          step,      \* LoginPage: "password" or "mfa"
          passkey,   \* LoginPage: the passkey prompt is open
          status,    \* ["mfa-status"]: [data, of, fetch, for, error]; of, for: the sessions they are from
          wizard,    \* MfaEnrollFlow: "off", or a step of it
          issued,    \* recovery codes were issued and not dismissed
          forgotten  \* the last session that was logged out

vars == <<session, logins, enrolled, required, faults, me, route, step, passkey, status, wizard,
          issued, forgotten>>

Users == {"setup", "full"}
NoStatus == [data |-> "none", of |-> 0, fetch |-> "idle", for |-> 0, error |-> FALSE]
\* What MfaEnrollFlow shows, one step after the other, and where it is shown.
Steps == {"password", "secret", "confirming", "codes"}
Hosts == {"gate", "panel"}
Unasked == [data |-> "none", fetch |-> "sent", attached |-> TRUE]

\* isLoading of useQuery: no data, and a request in flight.  (The variant is
\* isFetching.)
LoadingWhileFetching(m) == m.fetch # "idle"
Loading(m) == m.data = "none" /\ m.fetch # "idle"

\* The account panel of the MFA page shows the wizard as long as the account
\* is known not to be enrolled.
OffersEnrolment(s) == s.data = "off" /\ ~s.error

\* What is rendered: ProtectedRoute on every path but /login.
PlaceNoGate(r, m, s) ==
    IF r = "login" THEN "login"
    ELSE IF Loading(m) THEN "blank"
    ELSE IF OffersEnrolment(s) THEN "panel" ELSE "app"
Place(r, m, s) ==
    IF r = "login" THEN "login"
    ELSE IF Loading(m) THEN "blank"
    ELSE IF m.data = "setup" THEN "gate"
    ELSE IF OffersEnrolment(s) THEN "panel" ELSE "app"

Here == Place(route, me, status)

\* Where the router ends up: the login page sends a known user to the
\* console, ProtectedRoute an unknown one to the login page.
Routed(r, m) == CASE m.data \in Users -> "app"
                  [] m.data \notin Users /\ ~Loading(m) -> "login"
                  [] OTHER -> r

\* Mounting the MFA page fetches its status query.
Mounted(r, m, s) == IF Place(r, m, s) \in {"panel", "app"} /\ s.fetch = "idle"
                    THEN [s EXCEPT !.fetch = "sent"] ELSE s

\* The rest of every handler: the router, the queries of what gets mounted,
\* and the wizard, which keeps its state only while it stays mounted.
Render(r, m, s, w, codes) ==
    LET to == Routed(r, m)
        entered == Place(to, m, s) \in {"panel", "app"} /\ Here \notin {"panel", "app"}
        shown == IF entered THEN Mounted(to, m, s) ELSE s
        place == Place(to, m, shown)
    IN  /\ me' = m /\ route' = to /\ status' = shown
        /\ step' = IF to = "login" /\ Here = "login" THEN step ELSE "password"
        /\ wizard' = IF place \notin Hosts THEN "off" ELSE IF place = Here THEN w ELSE "password"
        /\ issued' = (codes /\ place \notin {"login", "blank"})

Init == /\ session = "none" /\ logins = 0 /\ faults = 0
        /\ enrolled \in BOOLEAN /\ required \in BOOLEAN
        /\ me = Unasked /\ route \in {"login", "app"} /\ step = "password" /\ passkey = FALSE
        /\ status = NoStatus /\ wizard = "off" /\ issued = FALSE /\ forgotten = 0

Server == <<session, logins, enrolled, required, faults, forgotten>>

\* --- the ["me"] query --------------------------------------------------------
\* The server answers GET /api/me; a 401 and a session waiting for its second
\* factor are no user.
MeServed == /\ me.fetch = "sent"
            /\ me' = [me EXCEPT !.fetch = IF session \in Users THEN session ELSE "null"]
            /\ UNCHANGED <<Server, route, step, passkey, status, wizard, issued>>

MeAnswered == /\ me.fetch \notin {"idle", "sent"}
              /\ Render(route, [me EXCEPT !.data = me.fetch, !.fetch = "idle"], status, wizard, issued)
              /\ UNCHANGED <<Server, passkey>>

\* Any other HTTP error is answered null as well; without an answer the
\* data stays.
MeRefused == /\ me.fetch = "sent" /\ faults < MaxFaults
             /\ faults' = faults + 1
             /\ \E d \in {"null", me.data} :
                  Render(route, [me EXCEPT !.data = d, !.fetch = "idle"], status, wizard, issued)
             /\ UNCHANGED <<session, logins, enrolled, required, forgotten, passkey>>

\* The tab becomes visible: the mounted queries that are still in the cache
\* are fetched again.
Focus == /\ (me.attached /\ me.fetch = "idle") \/ (Here \in {"panel", "app"} /\ status.fetch = "idle")
         /\ me' = IF me.attached /\ me.fetch = "idle" THEN [me EXCEPT !.fetch = "sent"] ELSE me
         /\ status' = Mounted(route, me, status)
         /\ wizard' = IF Place(route, me', status) = Here THEN wizard ELSE "off"
         /\ issued' = (issued /\ wizard' # "off")
         /\ UNCHANGED <<Server, route, step, passkey>>

\* --- the login page ------------------------------------------------------------
SetMe(user) == Render(route, [me EXCEPT !.data = user], status, wizard, issued)

OffersPassword == Here = "login" /\ step = "password"
OffersSecondFactor == Here = "login" /\ step = "mfa"

\* submit: the password was right (a wrong one only sets the error).  A login that needs the second factor
\* moves to the next step, any other one carries the user.
Submit == /\ OffersPassword /\ logins < MaxLogins
          /\ logins' = logins + 1
          /\ session' = IF enrolled THEN "pending" ELSE IF required THEN "setup" ELSE "full"
          /\ IF session' \in Users THEN SetMe(session')
             ELSE step' = "mfa" /\ UNCHANGED <<me, route, status, wizard, issued>>
          /\ UNCHANGED <<enrolled, required, faults, forgotten, passkey>>

\* submitMfa: the code was right.
SubmitMfa == /\ OffersSecondFactor /\ session = "pending"
             /\ session' = "full"
             /\ SetMe("full")
             /\ UNCHANGED <<logins, enrolled, required, faults, forgotten, passkey>>

\* submitPasskey: the prompt of the browser, then the same; it goes on when
\* the login page is left, and whatever happens the button is freed.
SubmitPasskey == /\ OffersSecondFactor /\ ~passkey
                 /\ passkey' = TRUE
                 /\ UNCHANGED <<Server, me, route, step, status, wizard, issued>>
PasskeyDone == /\ passkey /\ passkey' = FALSE
               /\ \/ /\ session = "pending" /\ session' = "full"
                     /\ SetMe("full")
                     /\ UNCHANGED <<logins, enrolled, required, faults, forgotten>>
                  \/ UNCHANGED <<Server, me, route, step, status, wizard, issued>>

\* The server has opened the session, but its answer never arrives.
SubmitLost == /\ OffersSecondFactor /\ session = "pending" /\ faults < MaxFaults
              /\ session' = "full" /\ faults' = faults + 1
              /\ UNCHANGED <<logins, enrolled, required, forgotten, me, route, step, passkey, status, wizard, issued>>

\* --- signing out -----------------------------------------------------------------
\* qc.clear() empties the cache; the ["me"] query AuthProvider shows is no
\* longer in it, so refresh() finds nothing to fetch again.
Cleared == [me EXCEPT !.fetch = "idle", !.attached = FALSE]

LogoutKeepsCache ==
    /\ Here \in {"panel", "app"}
    /\ session' = "none" /\ forgotten' = logins
    /\ Render("login", Cleared, status, "off", FALSE)
    /\ UNCHANGED <<logins, enrolled, required, faults, passkey>>

\* AppShell's logout, and logout-all of the sessions page: the request, then
\* clear, refresh and navigate.
Logout == /\ Here \in {"panel", "app"}
          /\ session' = "none" /\ forgotten' = logins
          /\ Render("login", Cleared, NoStatus, "off", FALSE)
          /\ UNCHANGED <<logins, enrolled, required, faults, passkey>>

\* AppShell's logout does not look at the answer: a request the server
\* refused is followed by the same steps.
LogoutRefused == /\ Here \in {"panel", "app"} /\ faults < MaxFaults
                 /\ faults' = faults + 1
                 /\ Render("login", Cleared, NoStatus, "off", FALSE)
                 /\ UNCHANGED <<session, logins, enrolled, required, forgotten, passkey>>

\* The session expires, or another browser logs out everywhere.
Expire == /\ session # "none" /\ session' = "none"
          /\ UNCHANGED <<logins, enrolled, required, faults, forgotten, me, route, step, passkey, status, wizard, issued>>

Reload == /\ me # Unasked
          /\ me' = Unasked /\ step' = "password" /\ passkey' = FALSE /\ status' = NoStatus
          /\ wizard' = "off" /\ issued' = FALSE
          /\ UNCHANGED <<Server, route>>

\* --- the MFA page and the enrolment wizard ---------------------------------------
StatusServed == /\ status.fetch = "sent"
                /\ status' = [status EXCEPT !.for = logins,
                                             !.fetch = IF session # "full" THEN "refused"
                                                       ELSE IF enrolled THEN "on" ELSE "off"]
                /\ UNCHANGED <<Server, me, route, step, passkey, wizard, issued>>

StatusAnswered ==
    /\ status.fetch \notin {"idle", "sent"}
    /\ LET answer == IF status.fetch = "refused"
                       THEN [status EXCEPT !.fetch = "idle", !.for = 0, !.error = TRUE]
                       ELSE [data |-> status.fetch, of |-> status.for, fetch |-> "idle", for |-> 0, error |-> FALSE]
       IN  Render(route, me, answer, wizard, issued)
    /\ UNCHANGED <<Server, passkey>>

StartSetup == /\ wizard = "password" /\ session \in Users
              /\ wizard' = "secret"
              /\ UNCHANGED <<Server, me, route, step, passkey, status, issued>>

\* doConfirm: the server enrols the account and issues the recovery codes.
\* onSuccess waits until the mounted status query is fetched again; in the
\* gate none is mounted.
Confirm == /\ wizard = "secret" /\ session \in Users
           /\ enrolled' = TRUE /\ session' = "full" /\ issued' = TRUE
           /\ IF Here = "gate" THEN wizard' = "codes" /\ UNCHANGED status
              ELSE wizard' = "confirming" /\ status' = [status EXCEPT !.fetch = "sent"]
           /\ UNCHANGED <<logins, required, faults, forgotten, me, route, step, passkey>>

\* RecoveryCodes' Done: onComplete refreshes what put the wizard on screen.
Done == /\ wizard = "codes" /\ me.attached
        /\ issued' = FALSE /\ me' = [me EXCEPT !.fetch = "sent"]
        /\ UNCHANGED <<Server, route, step, passkey, status, wizard>>

Next == \/ MeServed \/ MeAnswered \/ MeRefused \/ Focus
        \/ Submit \/ SubmitMfa \/ SubmitPasskey \/ PasskeyDone \/ SubmitLost \/ Logout \/ LogoutRefused \/ Expire \/ Reload
        \/ StatusServed \/ StatusAnswered \/ StartSetup \/ Confirm \/ Done

Spec == Init /\ [][Next]_vars

\* Requests are answered, as long as the user does not reload for ever.
FairSpec == Spec /\ SF_vars(MeServed) /\ SF_vars(MeAnswered)

Mes == [data : {"none", "null"} \cup Users, fetch : {"idle", "sent", "null"} \cup Users, attached : BOOLEAN]
Statuses == [data : {"none", "off", "on"}, of : Nat, fetch : {"idle", "sent", "refused", "off", "on"},
             for : Nat, error : BOOLEAN]

TypeOK == /\ session \in {"none", "pending"} \cup Users
          /\ logins \in 0 .. MaxLogins /\ forgotten \in 0 .. logins /\ faults \in 0 .. MaxFaults
          /\ enrolled \in BOOLEAN /\ required \in BOOLEAN /\ passkey \in BOOLEAN /\ issued \in BOOLEAN
          /\ me \in Mes /\ route \in {"login", "app"} /\ step \in {"password", "mfa"}
          /\ status \in Statuses /\ status.of <= logins /\ status.for <= logins
          /\ wizard \in {"off"} \cup Steps
          /\ (wizard = "off") = (Here \notin Hosts)

(* A session that still has to enrol never gets the console: whatever        *)
(* answers of ["me"] are late or lost, ProtectedRoute shows it the gate (or  *)
(* the login page).                                                          *)
GateFirst == session = "setup" => Here \notin {"panel", "app"}

(* Nothing fetched in a session that was logged out is shown again: logout   *)
(* clears the cache and drops the requests in flight.                        *)
LogoutForgets == status.data # "none" => status.of > forgotten

(* Coming back to the tab does not restart the enrolment: a refetch that     *)
(* brings nothing new leaves the wizard, and the secret the user has just    *)
(* scanned, on the screen.                                                   *)
RefetchStep == /\ wizard # "off"
               /\ \/ Focus
                  \/ MeAnswered /\ me.fetch = me.data
                  \/ StatusAnswered /\ status.fetch = status.data
               => wizard' = wizard
RefetchKeepsWizard == [][RefetchStep]_vars

(* Once the user is logged out, the console re-evaluates who is signed in    *)
(* and ends up at the login page (until the next login).                     *)
LogoutIsSeen == forgotten = logins /\ logins > 0 /\ session = "none" ~> Here = "login"

(* The enrolment wizard ends with the recovery codes, in the account panel   *)
(* and in the gate: once issued they are on the screen until dismissed.      *)
CodesAreShown == issued => wizard \in {"confirming", "codes"}

(***************************************************************************)
(* The inductive invariant behind GateFirst, LogoutForgets and             *)
(* RefetchKeepsWizard.                                                     *)
(***************************************************************************)
\* Away from the login page a user is known, or a page waits for one.
WhereInv == /\ me \in Mes /\ route \in {"login", "app"}
            /\ route = "app" /\ ~Loading(me) => me.data \in Users

\* A session that has to enrol is one of an account that must and did not, so
\* nothing the console heard or will hear of this account is "full".
EnrolInv == /\ enrolled \in BOOLEAN /\ required \in BOOLEAN
            /\ session \in {"none", "pending"} \cup Users
            /\ session = "setup" => required /\ ~enrolled
            /\ session \in {"pending", "full"} \/ me.data = "full" \/ me.fetch = "full" => enrolled \/ ~required

\* All that is kept or on its way was asked after the last logout.
StatusInv == /\ logins \in Nat /\ forgotten \in Nat /\ forgotten <= logins
             /\ session # "none" => forgotten < logins
             /\ status \in Statuses
             /\ status.data # "none" => status.of > forgotten
             /\ status.fetch \in {"off", "on"} => status.for > forgotten

\* The wizard is on screen exactly while a place that hosts it is shown.
WizardInv == /\ wizard \in {"off"} \cup Steps
             /\ wizard = "off" <=> Here \notin Hosts

SafeInv == WhereInv /\ EnrolInv /\ StatusInv /\ WizardInv

===============================================================================
