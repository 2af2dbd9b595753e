---------------------- MODULE ConsoleShellLists_proofs -----------------------
(***************************************************************************)
(* What stands around the pages of the console, and what the pages show    *)
(* of the server, for every number of logins, faults, memberships,         *)
(* locales, reloads and changes.  The shell: the gate before the console,  *)
(* the cache a logout empties, the wizard a refetch leaves alone, the      *)
(* tenant that stays active and the language of the text.  The lists: the  *)
(* firmware tab implements ServerView, shows what it has created and       *)
(* confirms what it has checked; a page shows what was asked for it and    *)
(* what was written through it, and says "nothing" only when told so.      *)
(* The variables of a part are p1, p2, ... in the order in which its       *)
(* module lists them (ConsoleTab); the parts define the invariants.        *)
(***************************************************************************)
EXTENDS ConsoleShell, ConsoleLists, Sequences, WellFoundedInduction, TLAPS

(***************************************************************************)
(* Session: p1 session, p2 logins, p3 enrolled, p4 required, p5 faults,    *)
(* p6 me, p7 route, p8 step, p9 passkey, p10 status, p11 wizard,           *)
(* p12 issued, p13 forgotten                                               *)
(***************************************************************************)

\* After a rendering the router and what is known of the user agree.
LEMMA RenderWhere ==
    ASSUME NEW r \in {"login", "app"}, NEW m \in Se!Mes, NEW s, NEW w, NEW c, Se!Render(r, m, s, w, c)
    PROVE  Se!WhereInv' /\ p6' = m
BY Zenon DEF Se!Render, Se!Routed, Se!WhereInv, Se!Mes

\* A rendering leaves the status, or sends its request.
LEMMA RenderStatus ==
    ASSUME NEW r, NEW m, NEW s \in Se!Statuses, NEW w, NEW c, Se!Render(r, m, s, w, c)
    PROVE  p10' = s \/ (s.fetch = "idle" /\ p10' = [s EXCEPT !.fetch = "sent"])
BY Zenon DEF Se!Render, Se!Mounted

\* A rendering shows the wizard exactly where there is a host for it.
LEMMA RenderWizard ==
    ASSUME NEW r, NEW m, NEW s, NEW w, NEW c, Se!Render(r, m, s, w, c), w \in {"off"} \cup Se!Steps,
           Se!Here' = Se!Here /\ Se!Here \in Se!Hosts => w # "off"
    PROVE  Se!WizardInv'
<1>1. Se!Here' = Se!Place(p7', p6', p10')
  BY Zenon DEF Se!Here
<1>2. p11' = IF Se!Here' \notin Se!Hosts THEN "off" ELSE IF Se!Here' = Se!Here THEN w ELSE "password"
  BY <1>1, Zenon DEF Se!Render
<1> QED BY <1>2, Zenon DEF Se!WizardInv, Se!Steps

\* A rendering after which the wizard is where it was.
LEMMA SameWizard ==
    ASSUME Se!WizardInv, NEW r, NEW m, NEW s, NEW c, Se!Render(r, m, s, p11, c)
    PROVE  Se!WizardInv'
BY RenderWizard, Zenon DEF Se!WizardInv

\* A step that changes neither what is shown nor the wizard's place.
LEMMA SamePlace ==
    ASSUME Se!WizardInv, Se!Here' = Se!Here, p11' \in {"off"} \cup Se!Steps, p11' = "off" <=> p11 = "off"
    PROVE  Se!WizardInv'
BY Zenon DEF Se!WizardInv

\* What is shown does not depend on the requests of the status.
LEMMA PlaceIs ==
    ASSUME NEW r \in {"login", "app"}, NEW m \in Se!Mes, NEW s, NEW t, t.data = s.data, t.error = s.error,
           NEW n \in Se!Mes, n.data = m.data, n.fetch = "idle" <=> m.fetch = "idle"
    PROVE  Se!Place(r, n, t) = Se!Place(r, m, s)
BY Zenon DEF Se!Place, Se!Loading, Se!OffersEnrolment

\* A user is known wherever the wizard can be.
LEMMA HostKnown ==
    ASSUME Se!WhereInv, Se!Here \in Se!Hosts \cup {"panel", "app"}
    PROVE  p7 = "app" /\ p6.data \in Se!Users
BY Zenon DEF Se!WhereInv, Se!Here, Se!Place, Se!Hosts

\* Every handler ends on a page that goes with what is known of the user.
LEMMA SessionWhere == Se!SafeInv /\ [Se!Next]_(Se!vars) => Se!WhereInv'
<1> SUFFICES ASSUME Se!SafeInv, [Se!Next]_(Se!vars) PROVE Se!WhereInv'
  BY Zenon
<1> USE DEF Se!SafeInv
<1>1. p6 \in Se!Mes /\ p7 \in {"login", "app"}
  BY Zenon DEF Se!WhereInv
<1>2. CASE UNCHANGED <<p6, p7>>
  BY <1>2, Zenon DEF Se!WhereInv, Se!Loading
<1>3. ASSUME p7' = p7, p6' \in Se!Mes, p6'.data = p6.data, p6'.fetch # "idle" \/ p6.fetch = "idle" 
      PROVE Se!WhereInv'
  BY <1>3, Zenon DEF Se!WhereInv, Se!Loading
<1>4. CASE Se!MeServed
  BY <1>1, <1>3, <1>4, Zenon DEF Se!MeServed, Se!Mes, Se!Users
<1>5. CASE Se!MeAnswered
  <2>1. [p6 EXCEPT !.data = p6.fetch, !.fetch = "idle"] \in Se!Mes
    BY <1>1, <1>5, Zenon DEF Se!MeAnswered, Se!Mes
  <2> QED BY <1>1, <1>5, <2>1, RenderWhere, Zenon DEF Se!MeAnswered
<1>6. CASE Se!MeRefused
  <2>1. \A d \in {"null", p6.data} : [p6 EXCEPT !.data = d, !.fetch = "idle"] \in Se!Mes
    BY <1>1, Zenon DEF Se!Mes
  <2> QED BY <1>1, <1>6, <2>1, RenderWhere, Zenon DEF Se!MeRefused
<1>7. CASE Se!Focus
  <2>1. [p6 EXCEPT !.fetch = "sent"] \in Se!Mes
    BY <1>1, Zenon DEF Se!Mes
  <2> QED BY <1>1, <1>2, <1>3, <1>7, <2>1, Zenon DEF Se!Focus, Se!Mes
<1>8. ASSUME NEW u \in Se!Users, Se!SetMe(u) PROVE Se!WhereInv'
  <2>1. [p6 EXCEPT !.data = u] \in Se!Mes
    BY <1>1, <1>8, Zenon DEF Se!Mes
  <2> QED BY <1>1, <1>8, <2>1, RenderWhere, Zenon DEF Se!SetMe
<1>9. CASE Se!Submit \/ Se!SubmitMfa \/ Se!PasskeyDone
  BY <1>2, <1>8, <1>9, Zenon DEF Se!Submit, Se!SubmitMfa, Se!PasskeyDone, Se!Users
<1>10. CASE Se!Logout \/ Se!LogoutRefused
  <2>1. Se!Cleared \in Se!Mes
    BY <1>1, Zenon DEF Se!Cleared, Se!Mes
  <2> QED BY <1>10, <2>1, RenderWhere, Zenon DEF Se!Logout, Se!LogoutRefused
<1>11. CASE Se!Reload
  BY <1>11, Zenon DEF Se!Reload, Se!Unasked, Se!WhereInv, Se!Mes, Se!Loading
<1>12. CASE Se!StatusAnswered
  BY <1>1, <1>12, RenderWhere, Zenon DEF Se!StatusAnswered
<1>13. CASE Se!Done
  BY <1>1, <1>3, <1>13, Zenon DEF Se!Done, Se!Mes
<1>14. CASE Se!SubmitPasskey \/ Se!SubmitLost \/ Se!Expire \/ Se!StatusServed \/ Se!StartSetup \/ Se!Confirm \/ UNCHANGED Se!vars
  BY <1>2, <1>14, Zenon DEF Se!SubmitPasskey, Se!SubmitLost, Se!Expire, Se!StatusServed, Se!StartSetup, Se!Confirm, Se!vars
<1> QED BY <1>4, <1>5, <1>6, <1>7, <1>9, <1>10, <1>11, <1>12, <1>13, <1>14, Zenon DEF Se!Next

\* A session leaves "setup" only by enrolling, and an account never unenrols.
LEMMA SessionEnrol == Se!SafeInv /\ [Se!Next]_(Se!vars) => Se!EnrolInv'
<1> SUFFICES ASSUME Se!SafeInv, [Se!Next]_(Se!vars) PROVE Se!EnrolInv'
  BY Zenon
<1> USE DEF Se!SafeInv, Se!EnrolInv
<1>1. p6 \in Se!Mes /\ p7 \in {"login", "app"}
  BY Zenon DEF Se!WhereInv
<1>2. CASE UNCHANGED <<p6, p3, p4, p1>>
  BY <1>2, Zenon
<1>3. ASSUME UNCHANGED <<p3, p4, p1>>,
             p6'.data = "full" \/ p6'.fetch = "full" => p6.data = "full" \/ p6.fetch = "full"
      PROVE  Se!EnrolInv'
  BY <1>3, Zenon
<1>4. CASE Se!MeServed
  BY <1>1, <1>4, Zenon DEF Se!MeServed, Se!Server, Se!Mes, Se!Users
<1>5. CASE Se!MeAnswered
  BY <1>1, <1>3, <1>5, Zenon DEF Se!MeAnswered, Se!Render, Se!Server, Se!Mes
<1>6. CASE Se!MeRefused
  BY <1>1, <1>3, <1>6, Zenon DEF Se!MeRefused, Se!Render, Se!Mes
<1>7. CASE Se!Focus
  BY <1>1, <1>3, <1>7, Zenon DEF Se!Focus, Se!Server, Se!Mes
<1>8. ASSUME NEW u \in Se!Users, Se!SetMe(u) PROVE p6'.data = u /\ p6'.fetch = p6.fetch
  BY <1>1, <1>8, Zenon DEF Se!SetMe, Se!Render, Se!Mes
<1>9. CASE Se!Submit
  BY <1>8, <1>9, Zenon DEF Se!Submit, Se!Users
<1>10. CASE Se!SubmitMfa \/ Se!PasskeyDone \/ Se!SubmitLost
  BY <1>2, <1>8, <1>10 DEF Se!SubmitMfa, Se!PasskeyDone, Se!SubmitLost, Se!Server, Se!Users
<1>11. CASE Se!Logout \/ Se!LogoutRefused
  <2>1. p6'.data = p6.data /\ p6'.fetch = "idle"
    BY <1>1, <1>11, Zenon DEF Se!Logout, Se!LogoutRefused, Se!Render, Se!Cleared, Se!Mes
  <2>2. CASE Se!Logout
    BY <2>1, <2>2, Zenon DEF Se!Logout
  <2>3. CASE Se!LogoutRefused
    BY <2>1, <2>3, Zenon DEF Se!LogoutRefused
  <2> QED BY <1>11, <2>2, <2>3, Zenon
<1>12. CASE Se!Reload
  BY <1>3, <1>12, Zenon DEF Se!Reload, Se!Unasked, Se!Server
<1>13. CASE Se!StatusAnswered
  BY <1>2, <1>13, Zenon DEF Se!StatusAnswered, Se!Render, Se!Server
<1>14. CASE Se!Done
  BY <1>1, <1>3, <1>14, Zenon DEF Se!Done, Se!Server, Se!Mes
<1>15. CASE Se!Confirm
  BY <1>15, Zenon DEF Se!Confirm, Se!Users
<1>16. CASE Se!Expire
  BY <1>16, Zenon DEF Se!Expire
<1>17. CASE Se!SubmitPasskey \/ Se!StatusServed \/ Se!StartSetup \/ UNCHANGED Se!vars
  BY <1>2, <1>17, Zenon DEF Se!SubmitPasskey, Se!StatusServed, Se!StartSetup, Se!vars, Se!Server
<1> QED BY <1>4, <1>5, <1>6, <1>7, <1>9, <1>10, <1>11, <1>12, <1>13, <1>14, <1>15, <1>16, <1>17, Zenon DEF Se!Next

\* Logging out empties the cache, and what is asked later is of a later session.
LEMMA SessionStatus == Se!SafeInv /\ [Se!Next]_(Se!vars) => Se!StatusInv'
<1> SUFFICES ASSUME Se!SafeInv, [Se!Next]_(Se!vars) PROVE Se!StatusInv'
  BY Zenon
<1> USE DEF Se!SafeInv, Se!StatusInv
<1>1. ASSUME UNCHANGED <<p2, p13>>, p1' # "none" => p1 # "none",
             p10' = p10 \/ (p10' = [p10 EXCEPT !.fetch = "sent"])
      PROVE  Se!StatusInv'
  BY <1>1, Zenon DEF Se!Statuses
<1>2. ASSUME NEW r, NEW m, NEW c, Se!Render(r, m, p10, p11, c)
      PROVE  p10' = p10 \/ (p10' = [p10 EXCEPT !.fetch = "sent"])
  BY <1>2, RenderStatus, Zenon
<1>3. CASE Se!MeAnswered \/ Se!MeRefused
  BY <1>1, <1>2, <1>3, Zenon DEF Se!MeAnswered, Se!MeRefused, Se!Server
<1>4. CASE Se!Focus
  BY <1>1, <1>4, Zenon DEF Se!Focus, Se!Mounted, Se!Server
<1>5. CASE Se!Submit
  <2>1. p10' = p10 \/ (p10' = [p10 EXCEPT !.fetch = "sent"])
    BY <1>2, <1>5, Zenon DEF Se!Submit, Se!SetMe
  <2> QED BY <1>5, <2>1 DEF Se!Submit, Se!Statuses
<1>6. CASE Se!SubmitMfa \/ Se!PasskeyDone \/ Se!SubmitLost
  BY <1>1, <1>2, <1>6, Zenon DEF Se!SubmitMfa, Se!PasskeyDone, Se!SubmitLost, Se!SetMe, Se!Server
<1>7. CASE Se!Logout \/ Se!LogoutRefused
  <2>1. Se!NoStatus \in Se!Statuses
    BY Zenon DEF Se!NoStatus, Se!Statuses
  <2>2. p10' = Se!NoStatus \/ p10' = [Se!NoStatus EXCEPT !.fetch = "sent"]
    BY <1>7, <2>1, RenderStatus, Zenon DEF Se!Logout, Se!LogoutRefused
  <2>3. p10' \in Se!Statuses /\ p10'.data = "none" /\ p10'.fetch \notin {"off", "on"}
    <3>1. ASSUME NEW s \in Se!Statuses, s.data = "none", s.fetch = "idle" 
          PROVE  /\ [s EXCEPT !.fetch = "sent"] \in Se!Statuses /\ [s EXCEPT !.fetch = "sent"].data = "none"
                 /\ [s EXCEPT !.fetch = "sent"].fetch = "sent"
      BY <3>1, Zenon DEF Se!Statuses
    <3>2. Se!NoStatus.data = "none" /\ Se!NoStatus.fetch = "idle"
      BY Zenon DEF Se!NoStatus
    <3> QED BY <2>1, <2>2, <3>1, <3>2, Zenon
  <2>4. CASE Se!Logout
    BY <2>3, <2>4 DEF Se!Logout
  <2>5. CASE Se!LogoutRefused
    BY <2>3, <2>5, Zenon DEF Se!LogoutRefused
  <2> QED BY <1>7, <2>4, <2>5, Zenon
<1>8. CASE Se!Reload
  BY <1>8, Zenon DEF Se!Reload, Se!NoStatus, Se!Statuses, Se!Server
<1>9. CASE Se!StatusServed
  BY <1>9, Zenon DEF Se!StatusServed, Se!Statuses, Se!Server
<1>10. CASE Se!StatusAnswered
  <2> DEFINE answer == IF p10.fetch = "refused"
                       THEN [p10 EXCEPT !.fetch = "idle", !.for = 0, !.error = TRUE]
                       ELSE [data |-> p10.fetch, of |-> p10.for, fetch |-> "idle", for |-> 0, error |-> FALSE]
  <2>1. /\ answer \in Se!Statuses /\ answer.fetch = "idle"
        /\ answer.data # "none" => answer.of > p13
    BY <1>10, Zenon DEF Se!StatusAnswered, Se!Statuses
  <2>2. Se!Render(p7, p6, answer, p11, p12) /\ UNCHANGED <<p2, p13, p1>>
    BY <1>10, Zenon DEF Se!StatusAnswered, Se!Server
  <2> HIDE DEF answer
  <2>3. p10' = answer \/ p10' = [answer EXCEPT !.fetch = "sent"]
    BY <2>1, <2>2, RenderStatus, Zenon
  <2> QED BY <2>1, <2>2, <2>3, Zenon DEF Se!Statuses
<1>11. CASE Se!Confirm
  BY <1>1, <1>11, Zenon DEF Se!Confirm, Se!Users
<1>12. CASE Se!MeServed \/ Se!SubmitPasskey \/ Se!Expire \/ Se!StartSetup \/ Se!Done \/ UNCHANGED Se!vars
  BY <1>1, <1>12, Zenon DEF Se!MeServed, Se!SubmitPasskey, Se!Expire, Se!StartSetup, Se!Done, Se!vars, Se!Server
<1> QED BY <1>3, <1>4, <1>5, <1>6, <1>7, <1>8, <1>9, <1>10, <1>11, <1>12, Zenon DEF Se!Next

\* The wizard starts when its host is shown and goes with it.
LEMMA SessionWizard == Se!SafeInv /\ [Se!Next]_(Se!vars) => Se!WizardInv'
<1> SUFFICES ASSUME Se!SafeInv, [Se!Next]_(Se!vars) PROVE Se!WizardInv'
  BY Zenon
<1> USE DEF Se!SafeInv
<1>1. p6 \in Se!Mes /\ p7 \in {"login", "app"} /\ p10 \in Se!Statuses
  BY Zenon DEF Se!WhereInv, Se!StatusInv
<1>2. ASSUME p11' = p11, p7' = p7, p6' \in Se!Mes, p6'.data = p6.data, p6.data # "none",
             p10'.data = p10.data, p10'.error = p10.error
      PROVE  Se!WizardInv'
  <2>1. Se!Here' = Se!Here
    BY <1>1, <1>2, Zenon DEF Se!Here, Se!Place, Se!Loading, Se!OffersEnrolment
  <2> QED BY <1>2, <2>1, SamePlace, Zenon DEF Se!WizardInv
<1>3. CASE UNCHANGED <<p11, p7, p6, p10>>
  <2>1. Se!Here' = Se!Here
    BY <1>3, Zenon DEF Se!Here
  <2> QED BY <1>3, <2>1, SamePlace, Zenon DEF Se!WizardInv
<1>4. CASE Se!MeServed
  <2>1. Se!Here' = Se!Here
    BY <1>1, <1>4, PlaceIs DEF Se!MeServed, Se!Here, Se!Mes, Se!Users
  <2> QED BY <1>4, <2>1, SamePlace, Zenon DEF Se!MeServed, Se!WizardInv
<1>5. CASE Se!MeAnswered \/ Se!MeRefused \/ Se!StatusAnswered
  BY <1>5, SameWizard, Zenon DEF Se!MeAnswered, Se!MeRefused, Se!StatusAnswered
<1>6. CASE Se!Submit \/ Se!SubmitMfa \/ Se!PasskeyDone
  BY <1>3, <1>6, SameWizard, Zenon DEF Se!Submit, Se!SubmitMfa, Se!PasskeyDone, Se!SetMe
<1>7. CASE Se!Focus
  <2>1. p10'.data = p10.data /\ p10'.error = p10.error /\ p6' \in Se!Mes /\ p6'.data = p6.data
        /\ p7' = p7 /\ (p6' = p6 \/ p6'.fetch = "sent")
    BY <1>1, <1>7, Zenon DEF Se!Focus, Se!Mounted, Se!Mes, Se!Statuses
  <2>2. Se!Here' = Se!Place(p7, p6', p10)
    BY <1>1, <2>1, PlaceIs DEF Se!Here
  <2>3. CASE Se!Here' = Se!Here
    BY <1>7, <2>2, <2>3, SamePlace, Zenon DEF Se!Focus, Se!WizardInv
  <2>4. CASE Se!Here' # Se!Here
    <3>1. p11' = "off"
      BY <1>7, <2>2, <2>4, Zenon DEF Se!Focus
    <3>2. Se!Here' \notin Se!Hosts
      BY <1>1, <2>1, <2>2, <2>4, Zenon DEF Se!Here, Se!Place, Se!Loading, Se!Hosts
    <3> QED BY <3>1, <3>2, Zenon DEF Se!WizardInv
  <2> QED BY <2>3, <2>4, Zenon
<1>8. CASE Se!Logout \/ Se!LogoutRefused
  <2>1. Se!Here \in {"panel", "app"} /\ p6' = Se!Cleared /\ p7' = Se!Routed("login", Se!Cleared)
        /\ \E c : Se!Render("login", Se!Cleared, Se!NoStatus, "off", c)
    BY <1>8, Zenon DEF Se!Logout, Se!LogoutRefused, Se!Render
  <2>2. p7 = "app" /\ p6.data = "full"
    BY <1>1, <2>1, Zenon DEF Se!WhereInv, Se!Here, Se!Place, Se!Users
  <2>3. p6'.data = "full" /\ p6'.fetch = "idle"
    BY <1>1, <2>1, <2>2, Zenon DEF Se!Cleared, Se!Mes
  <2>4. p10'.data = "none"
    BY <2>1 DEF Se!Render, Se!Mounted, Se!NoStatus
  <2>5. Se!Here' = "app" \/ Se!Here' = "login"
    BY <2>3, <2>4, Zenon DEF Se!Here, Se!Place, Se!Loading, Se!OffersEnrolment
  <2> QED BY <2>1, <2>5, RenderWizard, Zenon DEF Se!Hosts
<1>9. CASE Se!Reload
  <2>1. Se!Here' \in {"login", "blank"}
    BY <1>9, Zenon DEF Se!Reload, Se!Here, Se!Place, Se!Loading, Se!Unasked
  <2> QED BY <1>9, <2>1, Zenon DEF Se!Reload, Se!WizardInv, Se!Hosts
<1>10. CASE Se!StatusServed
  <2>1. Se!Here' = Se!Here
    <3>1. p10'.data = p10.data /\ p10'.error = p10.error /\ p6' = p6 /\ p7' = p7
      BY <1>1, <1>10, Zenon DEF Se!StatusServed, Se!Statuses
    <3> QED BY <1>1, <3>1, PlaceIs DEF Se!Here
  <2> QED BY <1>10, <2>1, SamePlace, Zenon DEF Se!StatusServed, Se!WizardInv
<1>11. CASE Se!StartSetup
  <2>1. Se!Here' = Se!Here
    BY <1>11, Zenon DEF Se!StartSetup, Se!Here
  <2> QED BY <1>11, <2>1, SamePlace, Zenon DEF Se!StartSetup, Se!Steps
<1>12. CASE Se!Confirm
  <2>1. Se!Here' = Se!Here
    BY <1>1, <1>12, PlaceIs DEF Se!Confirm, Se!Here, Se!Statuses
  <2> QED BY <1>12, <2>1, SamePlace, Zenon DEF Se!Confirm, Se!Steps
<1>13. CASE Se!Done
  <2>1. p6.data # "none"
    BY <1>13, HostKnown, Zenon DEF Se!Done, Se!WizardInv, Se!Users, Se!Hosts
  <2> QED BY <1>1, <1>2, <1>13, <2>1, Zenon DEF Se!Done, Se!Mes
<1>14. CASE Se!SubmitPasskey \/ Se!SubmitLost \/ Se!Expire \/ UNCHANGED Se!vars
  BY <1>3, <1>14, Zenon DEF Se!SubmitPasskey, Se!SubmitLost, Se!Expire, Se!vars, Se!Server
<1> QED BY <1>4, <1>5, <1>6, <1>7, <1>8, <1>9, <1>10, <1>11, <1>12, <1>13, <1>14, Zenon DEF Se!Next

\* Every step of the session keeps its invariant.
LEMMA SessionNext == Se!SafeInv /\ [Se!Next]_(Se!vars) => Se!SafeInv'
BY SessionWhere, SessionEnrol, SessionStatus, SessionWizard, Zenon DEF Se!SafeInv

\* A page that has just been loaded satisfies it.
LEMMA SessionInit == Se!Init => Se!SafeInv
<1> SUFFICES ASSUME Se!Init PROVE Se!SafeInv
  BY Zenon
<1> USE DEF Se!Init
<1>1. Se!WhereInv
  BY Zenon DEF Se!WhereInv, Se!Mes, Se!Unasked, Se!Loading
<1>2. Se!EnrolInv
  BY Zenon DEF Se!EnrolInv, Se!Unasked
<1>3. Se!StatusInv
  BY DEF Se!StatusInv, Se!Statuses, Se!NoStatus
<1>4. Se!WizardInv
  BY Zenon DEF Se!WizardInv, Se!Here, Se!Place, Se!Loading, Se!Unasked, Se!Hosts
<1> QED BY <1>1, <1>2, <1>3, <1>4, Zenon DEF Se!SafeInv

\* The invariant gives the gate.
LEMMA Gate == Se!SafeInv => Se!GateFirst
BY Zenon DEF Se!SafeInv, Se!WhereInv, Se!EnrolInv, Se!GateFirst, Se!Here, Se!Place, Se!Users

\* The invariant gives the fresh cache.
LEMMA Forgets == Se!SafeInv => Se!LogoutForgets
BY Zenon DEF Se!SafeInv, Se!StatusInv, Se!LogoutForgets

\* With the invariant, a refetch that brings nothing new renders the same place, so the wizard stays.
LEMMA Refetched == Se!SafeInv /\ [Se!Next]_(Se!vars) => (Se!RefetchStep \/ UNCHANGED Se!vars)
<1> SUFFICES ASSUME Se!SafeInv, p11 # "off" PROVE
       /\ Se!Focus => p11' = p11
       /\ Se!MeAnswered /\ p6.fetch = p6.data => p11' = p11
       /\ Se!StatusAnswered /\ p10.fetch = p10.data => p11' = p11
  BY Zenon DEF Se!RefetchStep
<1> USE DEF Se!SafeInv
<1>1. Se!Here \in Se!Hosts /\ p7 = "app" /\ p6.data \in Se!Users /\ p6 \in Se!Mes /\ p10 \in Se!Statuses
  BY HostKnown, Zenon DEF Se!WizardInv, Se!WhereInv, Se!StatusInv
<1>2. ASSUME Se!Focus PROVE p11' = p11
  <2>1. p6' \in Se!Mes /\ p6'.data = p6.data
    BY <1>1, <1>2, Zenon DEF Se!Focus, Se!Mes
  <2>2. Se!Place(p7, p6', p10) = Se!Here
    BY <1>1, <2>1, Zenon DEF Se!Here, Se!Place, Se!Loading, Se!Users
  <2> QED BY <1>2, <2>2, Zenon DEF Se!Focus
<1>3. ASSUME NEW m \in Se!Mes, NEW s \in Se!Statuses, m.data = p6.data, s.data = p10.data,
             p10.error => s.error, s.error => p10.error, Se!Render(p7, m, s, p11, p12)
      PROVE  p11' = p11
  <2>1. Se!Routed(p7, m) = "app"
    BY <1>1, <1>3, Zenon DEF Se!Routed
  <2>2. Se!Place("app", m, s) = Se!Here
    BY <1>1, <1>3, Zenon DEF Se!Here, Se!Place, Se!Loading, Se!OffersEnrolment, Se!Users
  <2> QED BY <1>1, <1>3, <2>1, <2>2, Zenon DEF Se!Render, Se!Hosts, Se!Mounted, Se!Place, Se!OffersEnrolment, Se!Statuses
<1>4. ASSUME Se!MeAnswered, p6.fetch = p6.data PROVE p11' = p11
  <2>1. [p6 EXCEPT !.data = p6.fetch, !.fetch = "idle"] \in Se!Mes
    BY <1>1, <1>4, Zenon DEF Se!Mes
  <2> QED BY <1>1, <1>3, <1>4, <2>1, Zenon DEF Se!MeAnswered, Se!Mes
<1>5. ASSUME Se!StatusAnswered, p10.fetch = p10.data PROVE p11' = p11
  <2> DEFINE s == [data |-> p10.fetch, of |-> p10.for, fetch |-> "idle", for |-> 0, error |-> FALSE]
  <2>1. Se!Render(p7, p6, s, p11, p12) /\ s \in Se!Statuses
    BY <1>1, <1>5, Zenon DEF Se!StatusAnswered, Se!Statuses
  <2>2. Se!Here = "panel" => ~p10.error
    BY Zenon DEF Se!Here, Se!Place, Se!OffersEnrolment
  <2>3. Se!Routed(p7, p6) = "app"
    BY <1>1, Zenon DEF Se!Routed
  <2>4. Se!Place("app", p6, s) = Se!Here
    BY <1>1, <1>5, Zenon DEF Se!Here, Se!Place, Se!Loading, Se!OffersEnrolment, Se!Users, Se!Hosts
  <2> HIDE DEF s
  <2> QED BY <1>1, <2>1, <2>3, <2>4, Zenon DEF Se!Render, Se!Hosts, Se!Mounted, Se!Place, Se!OffersEnrolment, Se!Statuses
<1> QED BY <1>2, <1>4, <1>5, Zenon

(***************************************************************************)
(* ActiveTenant: p1 mine, p2 changes, p3 list, p4 persisted, p5 storage,   *)
(* p6 storedId, p7 picked                                                  *)
(***************************************************************************)

\* A list that arrives keeps the choice, or ends it.
LEMMA TenantReceived ==
    ASSUME Te!PickInv, NEW l, l.loaded, Te!Received(l)
    PROVE  Te!PickInv'
<1> SUFFICES ASSUME p7' # 0
             PROVE  /\ p6' = p7' /\ (p5' => p4' = p7')
                    /\ l.data # {} => p7' \in l.data
  BY Zenon DEF Te!PickInv, Te!Received
<1>1. p7' = p7 /\ p6' = p6 /\ p5' = p5
  BY Zenon DEF Te!Received
<1>2. p7 \in l.data \/ l.data = {}
  BY Zenon DEF Te!Received
<1>3. Te!EffectiveActive(p6, l) = p6
  BY <1>1, <1>2, Zenon DEF Te!EffectiveActive, Te!PickInv
<1>4. p4' = p4
  BY <1>3, Zenon DEF Te!Received, Te!Persist
<1> QED BY <1>1, <1>2, <1>4, Zenon DEF Te!PickInv

\* Every step of the tenant provider keeps its invariant.
LEMMA TenantNext == Te!PickInv /\ [Te!Next]_(Te!vars) => Te!PickInv'
<1> SUFFICES ASSUME Te!PickInv, [Te!Next]_(Te!vars) PROVE Te!PickInv'
  BY Zenon
<1>1. CASE Te!Change
  BY <1>1, Zenon DEF Te!Change, Te!PickInv
<1>2. CASE Te!Focus
  BY <1>2 DEF Te!Focus, Te!PickInv
<1>3. CASE Te!Answer
  BY <1>3, TenantReceived, Zenon DEF Te!Answer
<1>4. CASE Te!Fail
  BY <1>4, TenantReceived, Zenon DEF Te!Fail
<1>5. CASE Te!Reload
  BY <1>5, Zenon DEF Te!Reload, Te!PickInv, Te!Unloaded
<1>6. ASSUME NEW id \in Tenants, Te!SetActiveId(id) PROVE Te!PickInv'
  BY <1>6, Zenon DEF Te!SetActiveId, Te!PickInv, Te!PersistId
<1>7. CASE UNCHANGED Te!vars
  BY <1>7, Zenon DEF Te!vars, Te!PickInv
<1> QED BY <1>1, <1>2, <1>3, <1>4, <1>5, <1>6, <1>7, Zenon DEF Te!Next

(***************************************************************************)
(* Locale: p1 locale, p2 stored, p3 cache, p4 chunks, p5 effect, p6 dict,  *)
(* p7 loads                                                                *)
(***************************************************************************)

\* A page that has just been loaded shows English until its chunk lands.
LEMMA LocaleInit == La!Init => La!TextInv
<1> SUFFICES ASSUME NEW l, La!Start(l) PROVE La!TextInv
  BY Zenon DEF La!Init
<1> QED BY Zenon DEF La!Start, La!TextInv, La!TextFollowsLocale, La!DictOf

\* Every step of the language provider keeps its invariant.
LEMMA LocaleNext == La!TextInv /\ [La!Next]_(La!vars) => La!TextInv'
<1> SUFFICES ASSUME La!TextInv, [La!Next]_(La!vars) PROVE La!TextInv'
  BY Zenon
<1> USE DEF La!TextInv, La!TextFollowsLocale, La!DictOf
<1>1. ASSUME NEW l \in Locales, La!setLocale(l) PROVE La!TextInv'
  BY <1>1, Zenon DEF La!setLocale, La!LoaderEffect
<1>2. ASSUME NEW l \in p4, La!Landed(l) PROVE La!TextInv'
  <2>1. CASE p1 = l
    BY <1>2, <2>1, Zenon DEF La!Landed
  <2>2. CASE p1 # l
    BY <1>2, <2>2, Zenon DEF La!Landed
  <2> QED BY <2>1, <2>2, Zenon
<1>3. ASSUME NEW l \in p4, La!Lost(l) PROVE La!TextInv'
  BY <1>3, Zenon DEF La!Lost
<1>4. ASSUME NEW langs \in La!Languages, La!Reload(langs) PROVE La!TextInv'
  BY <1>4, Zenon DEF La!Reload
<1>5. CASE UNCHANGED La!vars
  BY <1>5, Zenon DEF La!vars
<1> QED BY <1>1, <1>2, <1>3, <1>4, <1>5, Zenon DEF La!Next

(***************************************************************************)
(* The console's parts around its pages                                    *)
(***************************************************************************)

\* A step of the shell is a step of the part that runs.
LEMMA ShellSteps ==
    ASSUME [ShellNext]_vars
    PROVE  /\ part' = part
           /\ part = "session" => [Se!Next]_(Se!vars)
           /\ part = "tenant" => [Te!Next]_(Te!vars)
           /\ part = "language" => [La!Next]_(La!vars)
BY Zenon DEF ShellNext, vars, Se!vars, Te!vars, La!vars

\* A behaviour of the shell starts in a state of its part.
LEMMA ShellStarts ==
    ASSUME ShellInit
    PROVE  /\ part = "session" => Se!Init
           /\ part = "tenant" => Te!Init
           /\ part = "language" => La!Init
BY Zenon DEF ShellInit

SessionInv == part = "session" => Se!SafeInv

\* SessionInv is an invariant of the shell.
LEMMA SessionSafe == ShellSpec => []SessionInv
<1>1. ShellInit => SessionInv
  BY ShellStarts, SessionInit, Zenon DEF SessionInv
<1>2. SessionInv /\ [ShellNext]_vars => SessionInv'
  BY ShellSteps, SessionNext, Zenon DEF SessionInv
<1> QED BY <1>1, <1>2, PTL DEF ShellSpec

\* A session that still has to enrol its second factor never gets the console, whatever answers of
\* ["me"] are late, lost or replaced by an error (ProtectedRoute and the login page).
THEOREM GateComesFirst == ShellSpec => []GateFirst
<1>1. SessionInv => GateFirst
  BY Gate, Zenon DEF SessionInv, GateFirst
<1> QED BY <1>1, SessionSafe, PTL

\* Nothing fetched in a session that was logged out is shown again, also when its answer arrives
\* after the next login (AppShell, logout).
THEOREM LoggedOutIsForgotten == ShellSpec => []LogoutForgets
<1>1. SessionInv => LogoutForgets
  BY Forgets, Zenon DEF SessionInv, LogoutForgets
<1> QED BY <1>1, SessionSafe, PTL

\* A refetch that brings nothing new, after the tab was focused or on its own, leaves the enrolment
\* wizard at its step (ProtectedRoute, MfaPanel: only the first load spins).
THEOREM RefetchLeavesWizard == ShellSpec => RefetchKeepsWizard
<1>1. SessionInv /\ [ShellNext]_vars => [part = "session" => Se!RefetchStep]_vars
  <2> SUFFICES ASSUME SessionInv, ShellNext, part = "session" PROVE Se!RefetchStep \/ UNCHANGED vars
    BY Zenon
  <2>1. Se!SafeInv /\ [Se!Next]_(Se!vars) /\ part' = part
    BY ShellSteps, Zenon DEF SessionInv
  <2>2. UNCHANGED Se!vars => UNCHANGED vars
    BY <2>1, Zenon DEF vars, Se!vars
  <2> QED BY <2>1, <2>2, Refetched, Zenon
<1> QED BY <1>1, SessionSafe, PTL DEF ShellSpec, RefetchKeepsWizard

\* As long as every list that arrived contained the tenant the operator picked, the console stays on
\* it: through refetches, answers that are errors, and reloads (TenantProvider.tsx, effectiveActive).
THEOREM ChosenTenantStays == ShellSpec => []PickSurvives
<1> DEFINE Inv == part = "tenant" => Te!PickInv
<1>1. ShellInit => Inv
  BY ShellStarts, Zenon DEF Te!Init, Te!PickInv
<1>2. Inv /\ [ShellNext]_vars => Inv'
  BY ShellSteps, TenantNext, Zenon
<1>3. Inv => PickSurvives
  BY Zenon DEF PickSurvives, Te!PickInv, Te!PickSurvives, Te!Active, Te!EffectiveActive
<1> QED BY <1>1, <1>2, <1>3, PTL DEF ShellSpec

\* The text on screen is that of the locale as soon as its dictionary is in memory, and English until
\* then, however choices, imports and reloads follow each other (i18n/index.ts, the loader effect).
THEOREM TextIsOfLocale == ShellSpec => []TextFollowsLocale
<1> DEFINE Inv == part = "language" => La!TextInv
<1>1. ShellInit => Inv
  BY ShellStarts, LocaleInit, Zenon
<1>2. Inv /\ [ShellNext]_vars => Inv'
  BY ShellSteps, LocaleNext, Zenon
<1>3. Inv => TextFollowsLocale
  BY Zenon DEF TextFollowsLocale, La!TextInv
<1> QED BY <1>1, <1>2, <1>3, PTL DEF ShellSpec

\* A stored choice survives every reload, whatever the browser's languages are (locale.ts,
\* detectInitialLocale).
THEOREM StoredChoiceWins == ShellSpec => [][part = "language" => La!ChoiceStep]_vars
<1>1. [ShellNext]_vars => [part = "language" => La!ChoiceStep]_vars
  <2> SUFFICES ASSUME ShellNext, part = "language", p7' # p7, La!isLocale(p2) PROVE p1' = p2
    BY Zenon DEF La!ChoiceStep
  <2>1. La!Next
    BY Zenon DEF ShellNext
  <2>2. ASSUME NEW langs \in La!Languages, La!Reload(langs) PROVE p1' = p2
    BY <2>2, Zenon DEF La!Reload, La!detectInitialLocale
  <2> QED BY <2>1, <2>2, Zenon DEF La!Next, La!setLocale, La!Landed, La!Lost
<1> QED BY <1>1, PTL DEF ShellSpec

(***************************************************************************)
(* The types of the parts around the pages                                 *)
(***************************************************************************)

\* A set of numbers has a least element, which is the one Min names.
LEMMA LeastIn ==
  ASSUME NEW S \in SUBSET Nat, S # {}
  PROVE  Te!Min(S) \in S /\ La!Min(S) \in S
<1> DEFINE R == OpToRel(<, Nat)
<1>1. IsWellFoundedOn(R, Nat)
  BY NatLessThanWellFounded, Zenon
<1>2. \A x, y \in Nat : <<y, x>> \in R <=> y < x
  BY Zenon DEF OpToRel
<1> HIDE DEF R
<1>3. PICK x \in S : \A y \in S : ~(<<y, x>> \in R)
  BY <1>1, WFMin, Zenon
<1>4. ASSUME NEW y \in S PROVE x <= y
  <2>1. x \in Nat /\ y \in Nat /\ ~(y < x)
    BY <1>2, <1>3, Zenon
  <2> QED BY <2>1
<1>5. Te!Min(S) \in S
  BY <1>4, Zenon DEF Te!Min
<1>6. La!Min(S) \in S
  BY <1>4, Zenon DEF La!Min
<1> QED BY <1>5, <1>6, Zenon

\* What a rendering leaves of the types.
LEMMA RenderTypes ==
    ASSUME NEW r, NEW m, NEW s \in Se!Statuses, NEW w, NEW c, Se!Render(r, m, s, w, c), p8 \in {"password", "mfa"}
    PROVE  /\ p8' \in {"password", "mfa"} /\ p12' \in BOOLEAN
           /\ p10'.of = s.of /\ p10'.for = s.for
<1>1. p8' \in {"password", "mfa"} /\ p12' \in BOOLEAN
  BY Zenon DEF Se!Render
<1>2. p10' = s \/ p10' = [s EXCEPT !.fetch = "sent"]
  BY RenderStatus, Zenon
<1> QED BY <1>1, <1>2, Zenon DEF Se!Statuses

\* Every step of the session leaves the types, given its invariant.
LEMMA SessionTypes == Se!SafeInv /\ Se!TypeOK /\ [Se!Next]_(Se!vars) => Se!TypeOK'
<1> SUFFICES ASSUME Se!SafeInv, Se!TypeOK, [Se!Next]_(Se!vars) PROVE Se!TypeOK'
  BY Zenon
<1> DEFINE Types == /\ p2 <= MaxLogins /\ p5 \in 0 .. MaxFaults
                    /\ p9 \in BOOLEAN /\ p12 \in BOOLEAN /\ p8 \in {"password", "mfa"}
                    /\ p10.of <= p2 /\ p10.for <= p2
<1>1. Types /\ p2 \in Nat /\ p10 \in Se!Statuses /\ MaxLogins \in Nat /\ MaxFaults \in Nat
  BY ShellAssumption DEF Se!TypeOK
<1>2. SUFFICES Types'
  <2>1. Se!SafeInv'
    BY SessionNext, Zenon
  <2> QED BY <1>1, <1>2, <2>1, ShellAssumption DEF Se!SafeInv, Se!WhereInv, Se!EnrolInv, Se!StatusInv, Se!WizardInv, Se!TypeOK
<1>3. CASE UNCHANGED <<p2, p5, p8, p9, p10, p12>>
  BY <1>1, <1>3, Zenon
<1>4. ASSUME NEW r, NEW m, NEW s \in Se!Statuses, NEW w, NEW c, Se!Render(r, m, s, w, c),
             p2' \in {p2, p2 + 1}, p2' <= MaxLogins, p5' \in 0 .. MaxFaults, p9' \in BOOLEAN,
             s.of <= p2, s.for <= p2
      PROVE  Types'
  <2>1. /\ p8' \in {"password", "mfa"} /\ p12' \in BOOLEAN
        /\ p10'.of = s.of /\ p10'.for = s.for
    BY <1>1, <1>4, RenderTypes, Zenon
  <2>2. s.of \in Nat /\ s.for \in Nat
    BY DEF Se!Statuses
  <2> QED BY <1>1, <1>4, <2>1, <2>2
<1>5. p5 < MaxFaults => p5 + 1 \in 0 .. MaxFaults
  BY <1>1
<1>6. CASE Se!MeAnswered
  BY <1>1, <1>4, <1>6, Zenon DEF Se!MeAnswered, Se!Server
<1>7. CASE Se!MeRefused
  BY <1>1, <1>4, <1>5, <1>7, Zenon DEF Se!MeRefused
<1>8. CASE Se!Focus
  <2>1. p10' = p10 \/ p10' = [p10 EXCEPT !.fetch = "sent"]
    BY <1>8, Zenon DEF Se!Focus, Se!Mounted
  <2>2. p10'.of = p10.of /\ p10'.for = p10.for
    BY <1>1, <2>1, Zenon DEF Se!Statuses
  <2> QED BY <1>1, <1>8, <2>2, Zenon DEF Se!Focus, Se!Server
<1>9. CASE Se!Submit
  <2>1. p2' = p2 + 1 /\ p2 + 1 <= MaxLogins /\ p5' = p5 /\ p9' = p9
    BY <1>1, <1>9 DEF Se!Submit
  <2>2. CASE Se!Render(p7, [p6 EXCEPT !.data = p1'], p10, p11, p12)
    BY <1>1, <1>4, <2>1, <2>2, Zenon
  <2>3. CASE p8' = "mfa" /\ UNCHANGED <<p10, p12>>
    <3>1. p10.of \in Nat /\ p10.for \in Nat
      BY <1>1 DEF Se!Statuses
    <3> QED BY <1>1, <2>1, <2>3, <3>1
  <2> QED BY <1>9, <2>2, <2>3, Zenon DEF Se!Submit, Se!SetMe
<1>10. CASE Se!SubmitMfa
  BY <1>1, <1>4, <1>10, Zenon DEF Se!SubmitMfa, Se!SetMe
<1>11. CASE Se!PasskeyDone
  BY <1>1, <1>4, <1>11, Zenon DEF Se!PasskeyDone, Se!SetMe, Se!Server
<1>12. CASE Se!Logout \/ Se!LogoutRefused
  <2>1. Se!NoStatus \in Se!Statuses /\ Se!NoStatus.of = 0 /\ Se!NoStatus.for = 0 /\ 0 <= p2
    BY <1>1 DEF Se!NoStatus, Se!Statuses
  <2>2. CASE Se!Logout
    BY <1>1, <1>4, <2>1, <2>2, Zenon DEF Se!Logout
  <2>3. CASE Se!LogoutRefused
    BY <1>1, <1>4, <1>5, <2>1, <2>3, Zenon DEF Se!LogoutRefused
  <2> QED BY <1>12, <2>2, <2>3, Zenon
<1>13. CASE Se!Reload
  <2>1. Se!NoStatus.of = 0 /\ Se!NoStatus.for = 0
    BY Zenon DEF Se!NoStatus
  <2>2. p10'.of = 0 /\ p10'.for = 0 /\ p2' = p2 /\ p5' = p5 /\ p8' = "password" /\ p9' = FALSE /\ p12' = FALSE
    BY <1>13, <2>1, Zenon DEF Se!Reload, Se!Server
  <2>3. 0 <= p2
    BY <1>1
  <2> QED BY <1>1, <2>2, <2>3, Zenon
<1>14. CASE Se!StatusServed
  BY <1>1, <1>14 DEF Se!StatusServed, Se!Statuses, Se!Server
<1>15. CASE Se!StatusAnswered
  <2> DEFINE answer == IF p10.fetch = "refused"
                       THEN [p10 EXCEPT !.fetch = "idle", !.for = 0, !.error = TRUE]
                       ELSE [data |-> p10.fetch, of |-> p10.for, fetch |-> "idle", for |-> 0, error |-> FALSE]
  <2>1. answer \in Se!Statuses /\ answer.of <= p2 /\ answer.for <= p2
    <3>1. answer \in Se!Statuses
      BY <1>1, <1>15, Zenon DEF Se!StatusAnswered, Se!Statuses
    <3>2. answer.of \in {p10.of, p10.for} /\ answer.for = 0
      BY <1>1, Zenon DEF Se!Statuses
    <3> HIDE DEF answer
    <3> QED BY <1>1, <3>1, <3>2
  <2>2. Se!Render(p7, p6, answer, p11, p12) /\ UNCHANGED <<p2, p5, p9>>
    BY <1>15, Zenon DEF Se!StatusAnswered, Se!Server
  <2> HIDE DEF answer
  <2> QED BY <1>1, <1>4, <2>1, <2>2, Zenon
<1>16. CASE Se!Confirm
  <2>1. p10'.of = p10.of /\ p10'.for = p10.for
    BY <1>1, <1>16, Zenon DEF Se!Confirm, Se!Statuses
  <2> QED BY <1>1, <1>16, <2>1, Zenon DEF Se!Confirm
<1>17. CASE Se!SubmitLost
  BY <1>1, <1>5, <1>17, Zenon DEF Se!SubmitLost
<1>18. CASE Se!SubmitPasskey \/ Se!Done
  BY <1>1, <1>18, Zenon DEF Se!SubmitPasskey, Se!Done, Se!Server
<1>19. CASE Se!MeServed \/ Se!Expire \/ Se!StartSetup \/ UNCHANGED Se!vars
  BY <1>3, <1>19, Zenon DEF Se!MeServed, Se!Expire, Se!StartSetup, Se!vars, Se!Server
<1> QED BY <1>6, <1>7, <1>8, <1>9, <1>10, <1>11, <1>12, <1>13, <1>14, <1>15, <1>16, <1>17, <1>18, <1>19, Zenon DEF Se!Next

\* The fallback tenant is one of the list, so what is stored names a tenant or none.
LEMMA TenantPersists ==
    ASSUME Te!TypeOK, NEW id \in Te!Ids, NEW l \in [data : SUBSET Tenants, loaded : BOOLEAN, sent : BOOLEAN],
           NEW kept \in Te!Ids, Te!Persist(id, l, kept)
    PROVE  p4' \in Te!Ids
<1>1. l.data # {} => Te!Min(l.data) \in Tenants
  BY LeastIn, ShellAssumption, Zenon
<1> QED BY <1>1, Zenon DEF Te!Persist, Te!PersistId, Te!EffectiveActive, Te!Ids

\* Every step of the tenant provider leaves the types.
LEMMA TenantTypes == Te!TypeOK /\ [Te!Next]_(Te!vars) => Te!TypeOK'
<1> SUFFICES ASSUME Te!TypeOK, [Te!Next]_(Te!vars) PROVE Te!TypeOK'
  BY Zenon
<1> USE DEF Te!TypeOK
<1>1. ASSUME NEW l \in [data : SUBSET Tenants, loaded : BOOLEAN, sent : BOOLEAN], Te!Received(l)
      PROVE  Te!TypeOK'
  <2>1. p4' \in Te!Ids
    BY <1>1, TenantPersists, Zenon DEF Te!Received
  <2> QED BY <1>1, <2>1, Zenon DEF Te!Received, Te!Ids
<1>2. CASE Te!Change
  <2>1. p2 + 1 \in 0 .. MaxMoves
    BY <1>2, ShellAssumption DEF Te!Change
  <2> QED BY <1>2, <2>1, Zenon DEF Te!Change
<1>3. CASE Te!Focus
  BY <1>3, Zenon DEF Te!Focus
<1>4. CASE Te!Answer
  BY <1>1, <1>4, Zenon DEF Te!Answer
<1>5. CASE Te!Fail
  BY <1>1, <1>5, Zenon DEF Te!Fail
<1>6. CASE Te!Reload
  BY <1>6, Zenon DEF Te!Reload, Te!Unloaded, Te!Ids
<1>7. ASSUME NEW id \in Tenants, Te!SetActiveId(id) PROVE Te!TypeOK'
  BY <1>7, Zenon DEF Te!SetActiveId, Te!PersistId, Te!Ids
<1>8. CASE UNCHANGED Te!vars
  BY <1>8, Zenon DEF Te!vars
<1> QED BY <1>2, <1>3, <1>4, <1>5, <1>6, <1>7, <1>8, Zenon DEF Te!Next

\* Whatever is stored and whichever languages the browser has, a supported locale is found.
LEMMA LocaleFound ==
    ASSUME NEW choice, NEW langs \in La!Languages
    PROVE  La!detectInitialLocale(choice, langs) \in Locales
<1> DEFINE known == {i \in DOMAIN langs : La!Resolve(langs[i]) # "no"}
<1>1. DOMAIN langs \in SUBSET Nat
  BY DEF La!Languages
<1>2. ASSUME NEW i \in DOMAIN langs PROVE La!Resolve(langs[i]) \in {"no", "it", "zh-TW"}
  BY <1>2 DEF La!Languages, La!Resolve
<1>3. known # {} => La!Min(known) \in known
  BY <1>1, LeastIn, Zenon
<1>4. known # {} => La!Resolve(langs[La!Min(known)]) \in {"it", "zh-TW"}
  BY <1>2, <1>3, Zenon
<1>5. La!FirstResolved(langs) = IF known = {} THEN "en" ELSE La!Resolve(langs[La!Min(known)])
  BY Zenon DEF La!FirstResolved
<1> HIDE DEF known
<1> QED BY <1>4, <1>5, ShellAssumption, Zenon DEF La!detectInitialLocale, La!isLocale

\* Every step of the language provider leaves the types.
LEMMA LocaleTypes == La!TextInv /\ La!TypeOK /\ [La!Next]_(La!vars) => La!TypeOK'
<1> SUFFICES ASSUME La!TextInv, La!TypeOK, [La!Next]_(La!vars) PROVE La!TypeOK'
  BY Zenon
<1> USE DEF La!TypeOK
<1>0. "en" \in Locales
  BY ShellAssumption
<1>1. ASSUME NEW l \in Locales, La!setLocale(l) PROVE La!TypeOK'
  BY <1>0, <1>1, Zenon DEF La!setLocale, La!LoaderEffect, La!DictOf
<1>2. ASSUME NEW l \in p4, La!Landed(l) PROVE La!TypeOK'
  <2>1. l \in Locales /\ p4' \subseteq Locales \ p3'
    BY <1>2, Zenon DEF La!Landed
  <2> QED BY <1>2, <2>1, Zenon DEF La!Landed
<1>3. ASSUME NEW l \in p4, La!Lost(l) PROVE La!TypeOK'
  BY <1>3, Zenon DEF La!Lost
<1>4. ASSUME NEW langs \in La!Languages, La!Reload(langs) PROVE La!TypeOK'
  <2>1. p7 + 1 \in 0 .. MaxReloads
    BY <1>4, ShellAssumption DEF La!Reload
  <2>2. p1' \in Locales
    BY <1>4, LocaleFound, Zenon DEF La!Reload
  <2> QED BY <1>0, <1>4, <2>1, <2>2, Zenon DEF La!Reload
<1>5. CASE UNCHANGED La!vars
  BY <1>5, Zenon DEF La!vars
<1> QED BY <1>1, <1>2, <1>3, <1>4, <1>5, Zenon DEF La!Next

\* The parts around the pages start with their types.
LEMMA ShellTyped ==
    /\ Se!Init => Se!TypeOK
    /\ Te!Init => Te!TypeOK
    /\ La!Init => La!TypeOK
<1>1. ASSUME Se!Init PROVE Se!TypeOK
  <2>1. Se!SafeInv
    BY <1>1, SessionInit, Zenon
  <2>2. p2 \in 0 .. MaxLogins /\ p13 \in 0 .. p2 /\ p5 \in 0 .. MaxFaults /\ p2 \in Nat /\ 0 <= p2
    BY <1>1, ShellAssumption DEF Se!Init
  <2>3. Se!NoStatus.of = 0 /\ Se!NoStatus.for = 0
    BY Zenon DEF Se!NoStatus
  <2>4. p10.of <= p2 /\ p10.for <= p2 /\ p8 = "password" /\ p9 = FALSE /\ p12 = FALSE
    BY <1>1, <2>2, <2>3, Zenon DEF Se!Init
  <2> QED BY <2>1, <2>2, <2>4, Zenon DEF Se!SafeInv, Se!WhereInv, Se!EnrolInv, Se!StatusInv, Se!WizardInv, Se!TypeOK
<1>2. ASSUME Te!Init PROVE Te!TypeOK
  <2>1. 0 \in 0 .. MaxMoves
    BY ShellAssumption
  <2> QED BY <1>2, <2>1, Zenon DEF Te!Init, Te!TypeOK, Te!Unloaded, Te!Ids
<1>3. ASSUME La!Init PROVE La!TypeOK
  <2>1. 0 \in 0 .. MaxReloads /\ "en" \in Locales
    BY ShellAssumption
  <2>2. PICK langs \in La!Languages : La!Start(La!detectInitialLocale(p2, langs))
    BY <1>3, Zenon DEF La!Init
  <2>3. p1 \in Locales
    BY <2>2, LocaleFound, Zenon DEF La!Start
  <2> QED BY <1>3, <2>1, <2>2, <2>3, Zenon DEF La!Init, La!Start, La!TypeOK
<1> QED BY <1>1, <1>2, <1>3, Zenon

ShellTypes ==
    /\ part = "session" => Se!TypeOK
    /\ part = "tenant" => Te!TypeOK
    /\ part = "language" => La!TypeOK

\* The variables of the session, the tenant and the language have their types.
THEOREM ShellTypesSafe == ShellSpec => []ShellTypes
<1> DEFINE Inv == SessionInv /\ (part = "language" => La!TextInv) /\ ShellTypes
<1>1. ShellInit => Inv
  BY ShellStarts, SessionInit, LocaleInit, ShellTyped, Zenon DEF SessionInv, ShellTypes
<1>2. Inv /\ [ShellNext]_vars => Inv'
  <2> SUFFICES ASSUME Inv, [ShellNext]_vars PROVE Inv'
    BY Zenon
  <2>1. SessionInv' /\ (part = "session" => Se!TypeOK)'
    BY ShellSteps, SessionNext, SessionTypes, Zenon DEF SessionInv, ShellTypes
  <2>2. (part = "language" => La!TextInv)' /\ (part = "language" => La!TypeOK)'
    BY ShellSteps, LocaleNext, LocaleTypes, Zenon DEF ShellTypes
  <2>3. (part = "tenant" => Te!TypeOK)'
    BY ShellSteps, TenantTypes, Zenon DEF ShellTypes
  <2> QED BY <2>1, <2>2, <2>3, Zenon DEF ShellTypes
<1> QED BY <1>1, <1>2, PTL DEF ShellSpec

(***************************************************************************)
(* FirmwareTab: p1 hist, p2 list, p3 check, p4 pending, p5 when, p6 touched, *)
(* p7 create                                                               *)
(***************************************************************************)

\* The tab opens with its first request in flight.
LEMMA TabInit == Fw!Init => Fw!CacheInv /\ Fw!CreateInv
<1> SUFFICES ASSUME Fw!Init PROVE Fw!CacheInv /\ Fw!CreateInv
  BY Zenon
<1>1. PICK old \in Initial : p1 = <<old>>
  BY Zenon DEF Fw!Init
<1>2. old \in Seq(Fw!Statuses)
  BY InitialAssumption, Zenon
<1>3. p1 \in Seq(Seq(Fw!Statuses)) /\ Len(p1) = 1
  BY <1>1, <1>2
<1>4. p2 = [data |-> 0, sent |-> 1] /\ p7 = [phase |-> "idle", at |-> 0]
  BY Zenon DEF Fw!Init, Fw!Fetch, Fw!Empty, Fw!Idle
<1> QED BY <1>3, <1>4 DEF Fw!CacheInv, Fw!CreateInv, Fw!now

\* What the server does to its list makes it longer by one state.
LEMMA Appended ==
    ASSUME Fw!CacheInv, NEW s \in Seq(Fw!Statuses), p1' = Append(p1, s)
    PROVE  p1' \in Seq(Seq(Fw!Statuses)) /\ Fw!now' = Fw!now + 1 /\ Fw!now \in Nat
BY DEF Fw!CacheInv, Fw!now

\* The list with the created action is one state more.
LEMMA StoredGrows ==
    ASSUME Fw!CacheInv, Fw!Stored
    PROVE  p1' \in Seq(Seq(Fw!Statuses)) /\ Fw!now' = Fw!now + 1 /\ Fw!now \in Nat
<1>1. Fw!rows \in Seq(Fw!Statuses)
  BY DEF Fw!CacheInv, Fw!rows, Fw!now
<1>2. Append(Fw!rows, "scheduled") \in Seq(Fw!Statuses)
  BY <1>1 DEF Fw!Statuses, Fw!Terminal
<1> QED BY <1>2, Appended, Zenon DEF Fw!Stored

\* A request sent or ended leaves the data of the entry.
LEMMA Resent ==
    ASSUME NEW e \in [data : Nat, sent : Nat], NEW n \in Nat
    PROVE  [e EXCEPT !.sent = n] = [data |-> e.data, sent |-> n]
OBVIOUS

\* Every step of the tab keeps the cache and the creation in order.
LEMMA TabNext == Fw!CacheInv /\ Fw!CreateInv /\ [Fw!Next]_(Fw!vars) => (Fw!CacheInv /\ Fw!CreateInv)'
<1> SUFFICES ASSUME Fw!CacheInv, Fw!CreateInv, [Fw!Next]_(Fw!vars) PROVE (Fw!CacheInv /\ Fw!CreateInv)'
  BY Zenon
<1> USE DEF Fw!CacheInv, Fw!CreateInv
<1>1. Fw!now \in Nat /\ Fw!now >= 1
  BY DEF Fw!now
<1>2. ASSUME UNCHANGED <<p1, p2, p7>> PROVE (Fw!CacheInv /\ Fw!CreateInv)'
  BY <1>2, Zenon DEF Fw!now
<1>3. ASSUME Fw!Created PROVE (Fw!CacheInv /\ Fw!CreateInv)'
  <2>1. p1' \in Seq(Seq(Fw!Statuses)) /\ Fw!now' = Fw!now + 1
    BY <1>3, StoredGrows, Zenon DEF Fw!Created
  <2>2. p2' = Fw!Invalidate(p2, Fw!now + 1) /\ p7' = [phase |-> "settling", at |-> Fw!now + 1]
    BY <1>3, Zenon DEF Fw!Created
  <2> HIDE DEF Fw!now
  <2>3. Len(p1)' >= 1
    BY <1>1, <2>1 DEF Fw!now
  <2>4. [p2 EXCEPT !.sent = Fw!now + 1] = [data |-> p2.data, sent |-> Fw!now + 1]
    BY <1>1, Resent
  <2>5. \/ p2' = [data |-> p2.data, sent |-> Fw!now + 1]
        \/ p2' = p2 /\ p2.data = 0 /\ p2.sent # 0
    BY <2>2, <2>4, Zenon DEF Fw!Invalidate, Fw!Fetch
  <2> QED BY <1>1, <2>1, <2>2, <2>3, <2>5
<1>4. ASSUME Fw!CreateFailed PROVE (Fw!CacheInv /\ Fw!CreateInv)'
  <2>1. p2' = p2 /\ p7' = [phase |-> "idle", at |-> 0]
    BY <1>4, Zenon DEF Fw!CreateFailed, Fw!Idle
  <2>2. p1' \in Seq(Seq(Fw!Statuses)) /\ Fw!now' \in {Fw!now, Fw!now + 1} /\ Len(p1)' >= 1
    <3>1. CASE Fw!Stored
      BY <1>1, <3>1, StoredGrows DEF Fw!now
    <3>2. CASE UNCHANGED p1
      BY <3>2, Zenon DEF Fw!now
    <3> QED BY <1>4, <3>1, <3>2, Zenon DEF Fw!CreateFailed
  <2> QED BY <1>1, <2>1, <2>2
<1>5. ASSUME NEW i \in DOMAIN Fw!rows, Fw!Work(i) PROVE (Fw!CacheInv /\ Fw!CreateInv)'
  <2>1. PICK s \in Fw!Statuses : p1' = Append(p1, [Fw!rows EXCEPT ![i] = s])
    BY <1>5, Zenon DEF Fw!Work, Fw!Statuses, Fw!Terminal
  <2>2. Fw!rows \in Seq(Fw!Statuses)
    BY DEF Fw!rows, Fw!now
  <2>3. [Fw!rows EXCEPT ![i] = s] \in Seq(Fw!Statuses)
    BY <2>2
  <2>4. p1' \in Seq(Seq(Fw!Statuses)) /\ Fw!now' = Fw!now + 1
    BY <2>1, <2>3, Appended, Zenon
  <2>5. Len(p1)' >= 1
    BY <1>1, <2>4 DEF Fw!now
  <2> QED BY <1>1, <1>5, <2>4, <2>5 DEF Fw!Work
<1>6. ASSUME Fw!Answer PROVE (Fw!CacheInv /\ Fw!CreateInv)'
  <2>1. PICK v \in Fw!Answers(p2, Fw!now) : p2' = Fw!Answered(p2, v)
    BY <1>6, Zenon DEF Fw!Answer
  <2>2. v \in Nat /\ p2.sent # 0 /\ p2.sent <= v /\ v <= Fw!now
    BY <1>1, <2>1 DEF Fw!Answers
  <2>3. p2' = [data |-> v, sent |-> 0] /\ p1' = p1 /\ Fw!now' = Fw!now
    BY <1>6, <2>1, Zenon DEF Fw!Answer, Fw!Answered, Fw!now
  <2>4. p7'.phase # "settling" /\ p7' \in {p7, [phase |-> "idle", at |-> 0]}
    BY <1>6 DEF Fw!Answer, Fw!Settle, Fw!Idle
  <2> QED BY <1>1, <2>2, <2>3, <2>4
<1>7. ASSUME Fw!FetchFailed PROVE (Fw!CacheInv /\ Fw!CreateInv)'
  <2>1. p2' = [data |-> p2.data, sent |-> 0] /\ p1' = p1 /\ Fw!now' = Fw!now
    BY <1>7, Resent, Zenon DEF Fw!FetchFailed, Fw!Failed, Fw!now
  <2>2. p7'.phase # "settling" /\ p7' \in {p7, [phase |-> "idle", at |-> 0]}
    BY <1>7 DEF Fw!FetchFailed, Fw!Settle, Fw!Idle
  <2> QED BY <1>1, <2>1, <2>2
<1>8. ASSUME p2.sent = 0, p2' = Fw!Fetch(p2, Fw!now), UNCHANGED <<p1, p7>> PROVE (Fw!CacheInv /\ Fw!CreateInv)'
  <2>1. p2' = [data |-> p2.data, sent |-> Fw!now] /\ Fw!now' = Fw!now
    BY <1>1, <1>8, Resent, Zenon DEF Fw!Fetch, Fw!now
  <2>2. p7.phase = "settling" => p2.data = 0
    BY <1>8, Zenon
  <2> QED BY <1>1, <1>8, <2>1, <2>2
<1>9. ASSUME NEW scheduled \in BOOLEAN, Fw!Fire(scheduled) PROVE (Fw!CacheInv /\ Fw!CreateInv)'
  <2>1. p7' = [phase |-> "posting", at |-> 0] /\ p2' = p2 /\ p1' = p1 /\ Fw!now' = Fw!now
    BY <1>9, Zenon DEF Fw!Fire, Fw!now
  <2> QED BY <1>1, <2>1
<1>10. CASE UNCHANGED Fw!vars
  BY <1>2, <1>10, Zenon DEF Fw!vars
<1>11. CASE Fw!Check \/ Fw!CheckAnswered \/ Fw!PickTime \/ Fw!Cancel \/ \E kind \in Fw!Kinds : Fw!Open(kind)
  BY <1>2, <1>11, Zenon DEF Fw!Check, Fw!CheckAnswered, Fw!PickTime, Fw!Cancel, Fw!Open
<1>12. CASE Fw!Poll \/ Fw!Focus
  BY <1>8, <1>12, Zenon DEF Fw!Poll, Fw!Focus
<1> QED BY <1>3, <1>4, <1>5, <1>6, <1>7, <1>9, <1>10, <1>11, <1>12, Zenon DEF Fw!Next

\* What a step may do to the numbers of ServerView.
ServerMoves == Fw!now' = Fw!now + 1 /\ p2'.data = p2.data
PageMoves == p2'.data \in p2.data .. Fw!now /\ Fw!now' = Fw!now

\* A step of the tab is one of the two, or neither number moves.
LEMMA TabForward ==
    Fw!CacheInv /\ [Fw!Next]_(Fw!vars) => ServerMoves \/ PageMoves \/ UNCHANGED <<Fw!now, p2.data>>
<1> SUFFICES ASSUME Fw!CacheInv, [Fw!Next]_(Fw!vars), ~ UNCHANGED <<Fw!now, p2.data>>
             PROVE  ServerMoves \/ PageMoves
  BY Zenon
<1> USE DEF Fw!CacheInv
<1>1. Fw!now \in Nat
  BY DEF Fw!now
<1>2. CASE Fw!Created
  <2>1. p2'.data = p2.data
    <3>1. [p2 EXCEPT !.sent = Fw!now + 1] = [data |-> p2.data, sent |-> Fw!now + 1]
      <4> Fw!now + 1 \in Nat /\ p2 \in [data : Nat, sent : Nat]
        BY <1>1
      <4> HIDE DEF Fw!CacheInv, Fw!now
      <4> QED BY Resent, Zenon
    <3> QED BY <1>2, <3>1, Zenon DEF Fw!Created, Fw!Invalidate, Fw!Fetch
  <2> QED BY <1>2, <2>1, StoredGrows, Zenon DEF Fw!Created, ServerMoves
<1>3. CASE Fw!CreateFailed
  <2>1. CASE Fw!Stored
    BY <1>3, <2>1, StoredGrows, Zenon DEF Fw!CreateFailed, ServerMoves
  <2>2. CASE UNCHANGED p1
    BY <1>3, <2>2, Zenon DEF Fw!CreateFailed, Fw!now
  <2> QED BY <1>3, <2>1, <2>2, Zenon DEF Fw!CreateFailed
<1>4. ASSUME NEW i \in DOMAIN Fw!rows, Fw!Work(i) PROVE ServerMoves
  <2>1. PICK s \in Fw!Statuses : p1' = Append(p1, [Fw!rows EXCEPT ![i] = s])
    BY <1>4, Zenon DEF Fw!Work, Fw!Statuses, Fw!Terminal
  <2>2. Fw!rows \in Seq(Fw!Statuses)
    BY DEF Fw!rows, Fw!now
  <2>3. [Fw!rows EXCEPT ![i] = s] \in Seq(Fw!Statuses)
    BY <2>2
  <2> QED BY <1>4, <2>1, <2>3, Appended, Zenon DEF Fw!Work, ServerMoves
<1>5. CASE Fw!Answer
  <2>1. PICK v \in Fw!Answers(p2, Fw!now) : p2' = Fw!Answered(p2, v)
    BY <1>5, Zenon DEF Fw!Answer
  <2>2. v \in Nat /\ p2.data <= v /\ v <= Fw!now
    BY <1>1, <2>1 DEF Fw!Answers
  <2> QED BY <1>1, <1>5, <2>1, <2>2 DEF Fw!Answer, Fw!Answered, PageMoves, Fw!now
<1>6. CASE Fw!FetchFailed \/ Fw!Poll \/ Fw!Focus
  BY <1>1, <1>6, Resent, Zenon DEF Fw!FetchFailed, Fw!Failed, Fw!Poll, Fw!Focus, Fw!Fetch, Fw!now
<1>7. CASE UNCHANGED <<p1, p2>>
  BY <1>7, Zenon DEF Fw!now
<1>8. CASE Fw!Check \/ Fw!CheckAnswered \/ Fw!PickTime \/ Fw!Cancel \/ UNCHANGED Fw!vars
  BY <1>7, <1>8, Zenon DEF Fw!Check, Fw!CheckAnswered, Fw!PickTime, Fw!Cancel, Fw!vars
<1>9. CASE \/ \E kind \in Fw!Kinds : Fw!Open(kind)
           \/ \E scheduled \in BOOLEAN : Fw!Fire(scheduled)
  BY <1>7, <1>9, Zenon DEF Fw!Open, Fw!Fire
<1> QED BY <1>2, <1>3, <1>4, <1>5, <1>6, <1>8, <1>9, Zenon DEF Fw!Next

\* When the creation of an action ends with a fresh list, the list has the action.
LEMMA TabReads == Fw!CacheInv /\ Fw!CreateInv /\ Fw!Next => Fw!ReadStep
<1> SUFFICES ASSUME Fw!CacheInv, Fw!CreateInv, Fw!Next, p7.phase = "settling", p7'.phase = "idle",
                    p2.data # 0, p2'.data # p2.data
             PROVE  p2'.data >= p7.at
  BY Zenon DEF Fw!ReadStep
<1> USE DEF Fw!CacheInv, Fw!CreateInv
<1>1. Fw!now \in Nat
  BY DEF Fw!now
<1>2. CASE Fw!Answer
  <2>1. PICK v \in Fw!Answers(p2, Fw!now) : p2' = Fw!Answered(p2, v)
    BY <1>2, Zenon DEF Fw!Answer
  <2>2. v \in Nat /\ p2.sent <= v
    BY <1>1, <2>1 DEF Fw!Answers
  <2> QED BY <2>1, <2>2 DEF Fw!Answered
<1>3. CASE Fw!FetchFailed
  BY <1>3, Resent, Zenon DEF Fw!FetchFailed, Fw!Failed
<1>4. CASE Fw!Created \/ Fw!CreateFailed
  BY <1>4, Zenon DEF Fw!Created, Fw!CreateFailed
<1>5. CASE p7' = p7 \/ p2' = p2
  BY <1>5, Zenon
<1>6. CASE Fw!Check \/ Fw!CheckAnswered \/ Fw!PickTime \/ Fw!Cancel \/ Fw!Poll \/ Fw!Focus
  BY <1>5, <1>6, Zenon DEF Fw!Check, Fw!CheckAnswered, Fw!PickTime, Fw!Cancel, Fw!Poll, Fw!Focus
<1>7. CASE \/ \E kind \in Fw!Kinds : Fw!Open(kind)
           \/ \E scheduled \in BOOLEAN : Fw!Fire(scheduled)
           \/ \E i \in DOMAIN Fw!rows : Fw!Work(i)
  BY <1>5, <1>7, Zenon DEF Fw!Open, Fw!Fire, Fw!Work
<1> QED BY <1>2, <1>3, <1>4, <1>6, <1>7, Zenon DEF Fw!Next

\* No dialog is open at first.
LEMMA DialogInit == Fw!Init => Fw!DialogInv
BY Zenon DEF Fw!Init, Fw!DialogInv, Fw!DialogMatchesCheck, Fw!TimeIsTheDialogs

\* Every step of the tab leaves the open dialog one that the check offers, with a time of its own.
LEMMA DialogNext == Fw!DialogInv /\ [Fw!Next]_(Fw!vars) => Fw!DialogInv'
<1> SUFFICES ASSUME Fw!DialogInv, [Fw!Next]_(Fw!vars) PROVE Fw!DialogInv'
  BY Zenon
<1> USE DEF Fw!DialogInv, Fw!DialogMatchesCheck, Fw!TimeIsTheDialogs
<1>1. CASE UNCHANGED <<p3, p4, p5, p6>>
  BY <1>1, Zenon DEF Fw!Offered
<1>2. CASE Fw!Check
  BY <1>2, Zenon DEF Fw!Check
<1>3. CASE Fw!CheckAnswered
  BY <1>3, Zenon DEF Fw!CheckAnswered, Fw!Offered, Fw!Kinds
<1>4. ASSUME NEW kind \in Fw!Kinds, Fw!Open(kind) PROVE Fw!DialogInv'
  BY <1>4, Zenon DEF Fw!Open, Fw!Offered
<1>5. CASE Fw!PickTime
  BY <1>5, Zenon DEF Fw!PickTime, Fw!Offered
<1>6. CASE Fw!Cancel
  BY <1>6, Zenon DEF Fw!Cancel
<1>7. CASE Fw!CreateFailed
  BY <1>7, Zenon DEF Fw!CreateFailed
<1>8. CASE Fw!Answer \/ Fw!FetchFailed
  <2>1. CASE p4' = "none" /\ UNCHANGED <<p5, p6>>
    BY <2>1, Zenon
  <2> QED BY <1>1, <1>8, <2>1, Zenon DEF Fw!Answer, Fw!FetchFailed, Fw!Settle
<1>9. CASE Fw!Created \/ Fw!Poll \/ Fw!Focus \/ UNCHANGED Fw!vars
  BY <1>1, <1>9, Zenon DEF Fw!Created, Fw!Poll, Fw!Focus, Fw!vars
<1>10. CASE \/ \E scheduled \in BOOLEAN : Fw!Fire(scheduled)
            \/ \E i \in DOMAIN Fw!rows : Fw!Work(i)
  BY <1>1, <1>10, Zenon DEF Fw!Fire, Fw!Work
<1> QED BY <1>2, <1>3, <1>4, <1>5, <1>6, <1>7, <1>8, <1>9, <1>10, Zenon DEF Fw!Next

(***************************************************************************)
(* ConsolePages: p1 query, p2 mutation, p3 view, p4 now, p5 cache,         *)
(* p6 writing, p7 owed                                                     *)
(***************************************************************************)

\* A key holds every parameter the request depends on.
Keyed(q) == q.uses \subseteq q.key

\* onSuccess refreshes what the mutation wrote, or stores the answer.
Refreshing(m, resource) == m.effect = "store" \/ (m.effect = "invalidate" /\ resource \in m.refreshes)

\* The kinds of hooks there are.
LEMMA QueryShapes ==
    \A params, resource :
       /\ Keyed(Qu!Query(params, resource)) /\ ~ Qu!Query(params, resource).lenient
       /\ Keyed(Qu!Gated(params, resource)) /\ ~ Qu!Gated(params, resource).lenient
       /\ Keyed(Qu!Lenient(Qu!Query(params, resource)))
       /\ Keyed(Qu!Lenient(Qu!Gated(params, resource)))
BY Zenon DEF Keyed, Qu!Query, Qu!Gated, Qu!Lenient

\* What a mutation of either kind refreshes.
LEMMA MutationShapes ==
    /\ \A resource, others, r : r \in Qu!Invalidates(resource, others).writes
                                   => Refreshing(Qu!Invalidates(resource, others), r)
    /\ \A resource, r : Refreshing(Qu!Stores(resource), r)
BY Zenon DEF Refreshing, Qu!Invalidates, Qu!Stores

\* No hook leaves a parameter of its request out of its key.
LEMMA AllKeyed == \A q \in Qu!Queries : Keyed(q)
<1>1. Keyed(Qu!useTrustedDevices)
  BY Zenon DEF Keyed, Qu!useTrustedDevices, Qu!Query, Qu!D
<1>2. Keyed(Qu!useWebAuthnCredentials)
  BY Zenon DEF Keyed, Qu!useWebAuthnCredentials, Qu!Query, Qu!D
<1>3. Keyed(Qu!useSilentTenantAlerts)
  BY Zenon DEF Keyed, Qu!useSilentTenantAlerts, Qu!Query, Qu!D
<1>4. Keyed(Qu!useDriftCheck)
  BY Zenon DEF Keyed, Qu!useDriftCheck, Qu!Query, Qu!D
<1>5. /\ Keyed(Qu!meQuery) /\ Keyed(Qu!myTenantsQuery) /\ Keyed(Qu!useAllTenants) /\ Keyed(Qu!useSessions)
      /\ Keyed(Qu!useMfaStatus) /\ Keyed(Qu!useMfaPolicy) /\ Keyed(Qu!useTrustedDeviceToggle)
      /\ Keyed(Qu!useUsers) /\ Keyed(Qu!useSmtpSettings)
  BY QueryShapes, Zenon DEF Qu!meQuery, Qu!myTenantsQuery, Qu!useAllTenants, Qu!useSessions, Qu!useMfaStatus,
     Qu!useMfaPolicy, Qu!useTrustedDeviceToggle, Qu!useUsers, Qu!useSmtpSettings
<1>6. /\ Keyed(Qu!useLivePush) /\ Keyed(Qu!useRuntimeSettings) /\ Keyed(Qu!useGroups) /\ Keyed(Qu!useAuditQuery)
      /\ Keyed(Qu!useLogFleet) /\ Keyed(Qu!useLogFleetDevices) /\ Keyed(Qu!devicesQuery)
      /\ Keyed(Qu!useTenantDevices) /\ Keyed(Qu!deviceQuery)
  BY QueryShapes, Zenon DEF Qu!useLivePush, Qu!useRuntimeSettings, Qu!useGroups, Qu!useAuditQuery, Qu!useLogFleet,
     Qu!useLogFleetDevices, Qu!devicesQuery, Qu!useTenantDevices, Qu!deviceQuery
<1>7. /\ Keyed(Qu!useTenantHealth) /\ Keyed(Qu!useAlerts) /\ Keyed(Qu!useDeviceMetrics)
      /\ Keyed(Qu!useMetricLabels) /\ Keyed(Qu!useAttackerCountries) /\ Keyed(Qu!usePerimeterAttackers)
      /\ Keyed(Qu!useReliabilityEvents) /\ Keyed(Qu!useReliabilitySummary) /\ Keyed(Qu!useConfigAuditEvents)
  BY QueryShapes, Zenon DEF Qu!useTenantHealth, Qu!useAlerts, Qu!useDeviceMetrics, Qu!useMetricLabels,
     Qu!useAttackerCountries, Qu!usePerimeterAttackers, Qu!useReliabilityEvents, Qu!useReliabilitySummary,
     Qu!useConfigAuditEvents
<1>8. /\ Keyed(Qu!useConfigAuditSummary) /\ Keyed(Qu!useConfigModel) /\ Keyed(Qu!useConfigCapabilities)
      /\ Keyed(Qu!useConfigChanges) /\ Keyed(Qu!usePreviewChange) /\ Keyed(Qu!useDeviceCatalog)
      /\ Keyed(Qu!useCatalogModel) /\ Keyed(Qu!useCatalogDiff) /\ Keyed(Qu!useConfigMap)
  BY QueryShapes, Zenon DEF Qu!useConfigAuditSummary, Qu!useConfigModel, Qu!useConfigCapabilities,
     Qu!useConfigChanges, Qu!usePreviewChange, Qu!useDeviceCatalog, Qu!useCatalogModel, Qu!useCatalogDiff,
     Qu!useConfigMap
<1>9. /\ Keyed(Qu!useLogForwardingStatus) /\ Keyed(Qu!useDevicePlugins) /\ Keyed(Qu!usePluginModels)
      /\ Keyed(Qu!useTemplates) /\ Keyed(Qu!useSettingEndpoints) /\ Keyed(Qu!useProfiles)
      /\ Keyed(Qu!useGeneratedReports) /\ Keyed(Qu!useReportSchedules) /\ Keyed(Qu!useReportSettings)
  BY QueryShapes, Zenon DEF Qu!useLogForwardingStatus, Qu!useDevicePlugins, Qu!usePluginModels,
     Qu!useTemplates, Qu!useSettingEndpoints, Qu!useProfiles, Qu!useGeneratedReports, Qu!useReportSchedules,
     Qu!useReportSettings
<1>10. /\ Keyed(Qu!useReportLanguages) /\ Keyed(Qu!useRetention)
  BY QueryShapes, Zenon DEF Qu!useReportLanguages, Qu!useRetention
<1> QED BY <1>1, <1>2, <1>3, <1>4, <1>5, <1>6, <1>7, <1>8, <1>9, <1>10, Zenon DEF Qu!Queries

\* Every mutation but the five that RefreshesLess names refreshes what it writes.
LEMMA AllRefreshing ==
    \A m \in Qu!Mutations : \A r \in m.writes : Refreshing(m, r) \/ Qu!RefreshesLess(m, r)
<1> DEFINE Good(m) == \A r \in m.writes : Refreshing(m, r) \/ Qu!RefreshesLess(m, r)
<1>1. Good(Qu!useProposeCatalogChange)
  BY Zenon DEF Refreshing, Qu!RefreshesLess, Qu!useProposeCatalogChange, Qu!Silent
<1>2. Good(Qu!useMfaDisable)
  BY Zenon DEF Refreshing, Qu!RefreshesLess, Qu!useMfaDisable, Qu!AlsoWrites, Qu!Invalidates
<1>3. Good(Qu!useSetTrustedDeviceToggle)
  BY Zenon DEF Refreshing, Qu!RefreshesLess, Qu!useSetTrustedDeviceToggle, Qu!AlsoWrites, Qu!Invalidates
<1>4. Good(Qu!useResetUserMfa)
  BY Zenon DEF Refreshing, Qu!RefreshesLess, Qu!useResetUserMfa, Qu!AlsoWrites, Qu!Invalidates
<1>5. Good(Qu!useDeleteTemplate)
  BY Zenon DEF Refreshing, Qu!RefreshesLess, Qu!useDeleteTemplate, Qu!AlsoWrites, Qu!Invalidates
<1>6. /\ Good(Qu!useRevokeTrustedDevice) /\ Good(Qu!useRevokeAllTrustedDevices) /\ Good(Qu!useMfaConfirm)
      /\ Good(Qu!useMfaRegenerate) /\ Good(Qu!useAddPasskey) /\ Good(Qu!useRemovePasskey)
      /\ Good(Qu!useSetMfaPolicy) /\ Good(Qu!useUpdateSmtpSettings) /\ Good(Qu!useSetLivePush)
  BY MutationShapes, Zenon DEF Qu!useRevokeTrustedDevice, Qu!useRevokeAllTrustedDevices, Qu!useMfaConfirm,
     Qu!useMfaRegenerate, Qu!useAddPasskey, Qu!useRemovePasskey, Qu!useSetMfaPolicy, Qu!useUpdateSmtpSettings,
     Qu!useSetLivePush
<1>7. /\ Good(Qu!useUpdateRuntimeSettings) /\ Good(Qu!useCreateGroup) /\ Good(Qu!useUpdateGroup)
      /\ Good(Qu!useDeleteGroup) /\ Good(Qu!useSetGroupMembers) /\ Good(Qu!useAddGroupGrant)
      /\ Good(Qu!useDeleteGroupGrant) /\ Good(Qu!createDevice) /\ Good(Qu!testDevice)
  BY MutationShapes, Zenon DEF Qu!useUpdateRuntimeSettings, Qu!useCreateGroup, Qu!useUpdateGroup,
     Qu!useDeleteGroup, Qu!useSetGroupMembers, Qu!useAddGroupGrant, Qu!useDeleteGroupGrant, Qu!createDevice,
     Qu!testDevice
<1>8. /\ Good(Qu!removeDevice) /\ Good(Qu!useCreateChange) /\ Good(Qu!useScheduleChange)
      /\ Good(Qu!useCancelChange) /\ Good(Qu!useRevertChange) /\ Good(Qu!useApplyTemplate)
      /\ Good(Qu!useApplyProfile) /\ Good(Qu!useEnableLogForwarding) /\ Good(Qu!useDisableLogForwarding)
  BY MutationShapes, Zenon DEF Qu!removeDevice, Qu!useCreateChange, Qu!useScheduleChange, Qu!useCancelChange,
     Qu!useRevertChange, Qu!useApplyTemplate, Qu!useApplyProfile, Qu!useEnableLogForwarding,
     Qu!useDisableLogForwarding
<1>9. /\ Good(Qu!useRotateLogForwarding) /\ Good(Qu!useRevokeLogForwarding) /\ Good(Qu!useCreateTemplate)
      /\ Good(Qu!useUpdateTemplate) /\ Good(Qu!useCreateProfile) /\ Good(Qu!useUpdateProfile)
      /\ Good(Qu!useDeleteProfile) /\ Good(Qu!useGenerateReport) /\ Good(Qu!useUpsertReportSchedule)
  BY MutationShapes, Zenon DEF Qu!useRotateLogForwarding, Qu!useRevokeLogForwarding, Qu!useCreateTemplate,
     Qu!useUpdateTemplate, Qu!useCreateProfile, Qu!useUpdateProfile, Qu!useDeleteProfile, Qu!useGenerateReport,
     Qu!useUpsertReportSchedule
<1>10. /\ Good(Qu!useDeleteReportSchedule) /\ Good(Qu!useUpdateReportSettings) /\ Good(Qu!useUploadLogo)
      /\ Good(Qu!useDeleteLogo) /\ Good(Qu!useUpdateRetention)
  BY MutationShapes, Zenon DEF Qu!useDeleteReportSchedule, Qu!useUpdateReportSettings, Qu!useUploadLogo,
     Qu!useDeleteLogo, Qu!useUpdateRetention
<1> HIDE DEF Good
<1>11. \A m \in Qu!Mutations : Good(m)
  BY <1>1, <1>2, <1>3, <1>4, <1>5, <1>6, <1>7, <1>8, <1>9, <1>10, Zenon DEF Qu!Mutations
<1> QED BY <1>11, Zenon DEF Good

\* A page that is not an exception waits with a loader, reports the error, and shows no lenient query.
Guarded(p) ==
    /\ p.loading = "loader" /\ p.failed = "error"
    /\ \A q \in p.shows : ~ q.lenient

\* Such is a page without a flag of its own.
LEMMA PageShapes ==
    \A name, shows : (\A q \in shows : ~ q.lenient) => Guarded(Qu!Page(name, shows))
BY Zenon DEF Qu!Page, Guarded

\* They all are.
LEMMA AllGuarded == \A p \in Qu!Pages \ Qu!SayNothing : Guarded(p)
<1>1. /\ ~ Qu!useTenantHealth.lenient /\ ~ Qu!useAlerts.lenient /\ ~ Qu!useAttackerCountries.lenient
      /\ ~ Qu!usePerimeterAttackers.lenient /\ ~ Qu!useReliabilitySummary.lenient
      /\ ~ Qu!useConfigAuditSummary.lenient
  BY QueryShapes, Zenon DEF Qu!useTenantHealth, Qu!useAlerts, Qu!useAttackerCountries,
     Qu!usePerimeterAttackers, Qu!useReliabilitySummary, Qu!useConfigAuditSummary
<1>2. /\ Guarded(Qu!OverviewPage) /\ Guarded(Qu!AttackerCountriesCard) /\ Guarded(Qu!PerimeterCard)
      /\ Guarded(Qu!PerimeterTable) /\ Guarded(Qu!ReliabilityCard) /\ Guarded(Qu!ConfigAuditCard)
      /\ Guarded(Qu!AlertsPage)
  BY <1>1, PageShapes, Zenon DEF Qu!OverviewPage, Qu!AttackerCountriesCard, Qu!PerimeterCard,
     Qu!PerimeterTable, Qu!ReliabilityCard, Qu!ConfigAuditCard, Qu!AlertsPage
<1>3. /\ ~ Qu!deviceQuery.lenient /\ ~ Qu!useReliabilityEvents.lenient /\ ~ Qu!useConfigAuditEvents.lenient
      /\ ~ Qu!useConfigModel.lenient /\ ~ Qu!useConfigCapabilities.lenient
      /\ ~ Qu!useConfigChanges.lenient /\ ~ Qu!usePreviewChange.lenient /\ ~ Qu!useDevicePlugins.lenient
  BY QueryShapes, Zenon DEF Qu!deviceQuery, Qu!useReliabilityEvents, Qu!useConfigAuditEvents,
     Qu!useConfigModel, Qu!useConfigCapabilities, Qu!useConfigChanges, Qu!usePreviewChange, Qu!useDevicePlugins
<1>4. /\ Guarded(Qu!DeviceDetailPage) /\ Guarded(Qu!ReliabilityTab) /\ Guarded(Qu!ConfigAuditTab)
      /\ Guarded(Qu!ConfigTab) /\ Guarded(Qu!ChangesPanel) /\ Guarded(Qu!PreviewModal)
      /\ Guarded(Qu!PluginsTab)
  BY <1>3, PageShapes, Zenon DEF Qu!DeviceDetailPage, Qu!ReliabilityTab, Qu!ConfigAuditTab, Qu!ConfigTab,
     Qu!ChangesPanel, Qu!PreviewModal, Qu!PluginsTab
<1>5. /\ ~ Qu!useLogFleet.lenient /\ ~ Qu!useLogFleetDevices.lenient /\ ~ Qu!useAuditQuery.lenient
      /\ ~ Qu!useGeneratedReports.lenient /\ ~ Qu!useReportSettings.lenient /\ ~ Qu!useRetention.lenient
      /\ ~ Qu!useLivePush.lenient
  BY QueryShapes, Zenon DEF Qu!useLogFleet, Qu!useLogFleetDevices, Qu!useAuditQuery, Qu!useGeneratedReports,
     Qu!useReportSettings, Qu!useRetention, Qu!useLivePush
<1>6. /\ Guarded(Qu!LogFleetPage) /\ Guarded(Qu!TenantDevicesModal) /\ Guarded(Qu!AuditPage)
      /\ Guarded(Qu!ReportsPage) /\ Guarded(Qu!ReportSettingsForm) /\ Guarded(Qu!RetentionCard)
      /\ Guarded(Qu!SystemSettingsPage)
  BY <1>5, PageShapes, Zenon DEF Qu!LogFleetPage, Qu!TenantDevicesModal, Qu!AuditPage, Qu!ReportsPage,
     Qu!ReportSettingsForm, Qu!RetentionCard, Qu!SystemSettingsPage
<1>7. /\ ~ Qu!useRuntimeSettings.lenient /\ ~ Qu!useGroups.lenient /\ ~ Qu!useSessions.lenient
      /\ ~ Qu!useMfaStatus.lenient /\ ~ Qu!useMfaPolicy.lenient /\ ~ Qu!useUsers.lenient
  BY QueryShapes, Zenon DEF Qu!useRuntimeSettings, Qu!useGroups, Qu!useSessions, Qu!useMfaStatus, Qu!useMfaPolicy,
     Qu!useUsers
<1>8. /\ Guarded(Qu!RuntimeSettingsSection) /\ Guarded(Qu!GroupsPage) /\ Guarded(Qu!SessionsPage)
      /\ Guarded(Qu!MfaPanel) /\ Guarded(Qu!MfaPolicyControl) /\ Guarded(Qu!MfaUsersTable)
  BY <1>7, PageShapes, Zenon DEF Qu!RuntimeSettingsSection, Qu!GroupsPage, Qu!SessionsPage, Qu!MfaPanel,
     Qu!MfaPolicyControl, Qu!MfaUsersTable
<1> QED BY <1>2, <1>4, <1>6, <1>8, Zenon DEF Qu!Pages, Qu!SayNothing

\* On a page the key of a view is the view: Keyed at work.
LEMMA KeyIsView ==
    ASSUME p1 \in Qu!Queries, NEW v \in Qu!Views(p1)
    PROVE  Qu!Key(v) = v
<1>1. Keyed(p1)
  BY AllKeyed, Zenon
<1> QED BY <1>1, Zenon DEF Keyed, Qu!Views, Qu!Key

\* What sending a request does to an entry.
LEMMA SendFetch ==
    ASSUME NEW e \in Qu!Entries, NEW v, NEW at \in Nat
    PROVE  Qu!Send(e, v, at, Qu!Fetch) = IF e.sent = 0 THEN [data |-> e.data, sent |-> at, of |-> e.of, for |-> v] ELSE e
BY Zenon DEF Qu!Send, Qu!Fetch, Qu!Entries

\* What the request of an invalidation does to an entry.
LEMMA SendInvalidate ==
    ASSUME NEW e \in Qu!Entries, NEW v, NEW at \in Nat
    PROVE  Qu!Send(e, v, at, Qu!Invalidate) =
              IF e.data = 0 /\ e.sent # 0 THEN e
              ELSE [data |-> e.data, sent |-> at, of |-> e.of,
                    for |-> IF at # e.sent \/ e.sent = 0 THEN v ELSE e.for]
BY Zenon DEF Qu!Send, Qu!Fetch, Qu!Invalidate, Qu!Entries

\* An entry stays one of its key when its view's request is sent.
LEMMA SendOwn ==
    ASSUME NEW k \in Qu!Names, NEW e \in Qu!Entries, Qu!OwnEntry(k, e), NEW at \in Nat
    PROVE  /\ Qu!Send(e, k, at, Qu!Fetch) \in Qu!Entries /\ Qu!OwnEntry(k, Qu!Send(e, k, at, Qu!Fetch))
           /\ Qu!Send(e, k, at, Qu!Invalidate) \in Qu!Entries /\ Qu!OwnEntry(k, Qu!Send(e, k, at, Qu!Invalidate))
<1>1. /\ e.data \in Int /\ e.sent \in Nat /\ e.of \in Qu!Names /\ e.for \in Qu!Names
  BY Zenon DEF Qu!Entries
<1>2. Qu!Send(e, k, at, Qu!Fetch) \in Qu!Entries /\ Qu!OwnEntry(k, Qu!Send(e, k, at, Qu!Fetch))
  BY <1>1, SendFetch DEF Qu!OwnEntry, Qu!Entries
<1>3. Qu!Send(e, k, at, Qu!Invalidate) \in Qu!Entries /\ Qu!OwnEntry(k, Qu!Send(e, k, at, Qu!Invalidate))
  BY <1>1, SendInvalidate DEF Qu!OwnEntry, Qu!Entries
<1> QED BY <1>2, <1>3, Zenon

\* An answer stored in an entry, and a request that failed.
LEMMA StoredIn ==
    ASSUME NEW e \in Qu!Entries, NEW x, NEW y
    PROVE  [e EXCEPT !.data = x, !.of = y] = [data |-> x, sent |-> e.sent, of |-> y, for |-> e.for]
<1>1. [e EXCEPT !.data = x] = [data |-> x, sent |-> e.sent, of |-> e.of, for |-> e.for]
  BY DEF Qu!Entries
<1>2. [[data |-> x, sent |-> e.sent, of |-> e.of, for |-> e.for] EXCEPT !.of = y]
         = [data |-> x, sent |-> e.sent, of |-> y, for |-> e.for]
  OBVIOUS
<1> QED BY <1>1, <1>2, Zenon

\* A request sent for a view, as a record.
LEMMA SentFor ==
    ASSUME NEW e \in Qu!Entries, NEW x, NEW y
    PROVE  [e EXCEPT !.sent = x, !.for = y] = [data |-> e.data, sent |-> x, of |-> e.of, for |-> y]
<1>1. [e EXCEPT !.sent = x] = [data |-> e.data, sent |-> x, of |-> e.of, for |-> e.for]
  BY DEF Qu!Entries
<1>2. [[data |-> e.data, sent |-> x, of |-> e.of, for |-> e.for] EXCEPT !.for = y]
         = [data |-> e.data, sent |-> x, of |-> e.of, for |-> y]
  OBVIOUS
<1> QED BY <1>1, <1>2, Zenon

\* A change of one entry, in a step that does not move the page.
LEMMA OneEntry ==
    ASSUME Qu!EntryInv, NEW k \in DOMAIN p5, NEW e \in Qu!Entries, Qu!OwnEntry(k, e),
           p5' = [p5 EXCEPT ![k] = e], p1' = p1,
           p3' \in DOMAIN p5, p4' \in Nat \ {0}
    PROVE  Qu!EntryInv'
<1>1. DOMAIN p5' = DOMAIN p5 /\ Qu!Names' = Qu!Names /\ Qu!Entries' = Qu!Entries /\ Qu!Views(p1)' = Qu!Views(p1)
  BY Zenon DEF Qu!Names, Qu!Entries, Qu!Views
<1>2. p5' \in [DOMAIN p5 -> Qu!Entries] /\ \A j \in DOMAIN p5 : p5'[j] = IF j = k THEN e ELSE p5[j]
  BY Zenon DEF Qu!EntryInv
<1>3. \A j \in DOMAIN p5 : Qu!OwnEntry(j, p5[j]) /\ Qu!OwnEntry(j, p5'[j])
  BY <1>2, Zenon DEF Qu!EntryInv
<1>4. \A j \in DOMAIN p5 : Qu!OwnEntry(j, p5[j])'
  BY <1>3, Zenon DEF Qu!OwnEntry
<1> QED BY <1>1, <1>2, <1>4, Zenon DEF Qu!EntryInv

\* Every step of a page keeps its entries in order.
LEMMA EntryNext == Qu!EntryInv /\ [Qu!Next]_(Qu!vars) => Qu!EntryInv'
<1> SUFFICES ASSUME Qu!EntryInv, [Qu!Next]_(Qu!vars) PROVE Qu!EntryInv'
  BY Zenon
<1>1. /\ \A k \in DOMAIN p5 : Qu!Key(k) = k /\ k \in Qu!Names /\ p5[k] \in Qu!Entries /\ Qu!OwnEntry(k, p5[k])
      /\ p3 \in DOMAIN p5 /\ p4 \in Nat \ {0} /\ p1 \in Qu!Queries
  <2>1. \A k \in DOMAIN p5 : k \in Qu!Views(p1)
    BY Zenon DEF Qu!EntryInv
  <2> QED BY <2>1, KeyIsView, Zenon DEF Qu!EntryInv, Qu!Names
<1>2. ASSUME NEW k \in DOMAIN p5, NEW e \in Qu!Entries, Qu!OwnEntry(k, e),
             p5' = [p5 EXCEPT ![k] = e], p1' = p1,
             p3' \in DOMAIN p5, p4' \in Nat \ {0}
      PROVE  Qu!EntryInv'
  BY <1>2, OneEntry, Zenon
<1>3. ASSUME p5' = p5, p1' = p1, p3' \in DOMAIN p5, p4' \in Nat \ {0}
      PROVE  Qu!EntryInv'
  <2>1. Qu!Names' = Qu!Names /\ Qu!Entries' = Qu!Entries /\ Qu!Views(p1)' = Qu!Views(p1)
    BY <1>3, Zenon DEF Qu!Names, Qu!Entries, Qu!Views
  <2> QED BY <1>3, <2>1, Zenon DEF Qu!EntryInv, Qu!OwnEntry
<1>4. ASSUME NEW v \in DOMAIN p5, Qu!Move(v) PROVE Qu!EntryInv'
  <2>1. CASE Qu!Enabled(v)
    BY <1>1, <1>2, <1>4, <2>1, SendOwn, Zenon DEF Qu!Move
  <2>2. CASE ~ Qu!Enabled(v)
    BY <1>1, <1>3, <1>4, <2>2, Zenon DEF Qu!Move
  <2> QED BY <2>1, <2>2, Zenon
<1>5. CASE Qu!Refetch \/ Qu!Ask
  BY <1>1, <1>2, <1>5, SendOwn DEF Qu!Refetch, Qu!Ask
<1>6. CASE Qu!Write \/ Qu!WriteFailed \/ Qu!Elsewhere \/ UNCHANGED Qu!vars
  BY <1>1, <1>3, <1>6 DEF Qu!Write, Qu!WriteFailed, Qu!Elsewhere, Qu!vars
<1>7. CASE Qu!Written
  <2>1. p1' = p1 /\ p3' = p3 /\ p4' = p4 + 1 /\ p4 + 1 \in Nat \ {0}
    BY <1>1, <1>7 DEF Qu!Written
  <2>2. CASE p5' = p5
    BY <1>1, <1>3, <2>1, <2>2, Zenon
  <2>3. CASE p5' = [p5 EXCEPT ![p3] = Qu!Send(@, p3, p4 + 1, Qu!Invalidate)]
    BY <1>1, <1>2, <2>1, <2>3, SendOwn, Zenon
  <2>4. CASE p5' = [p5 EXCEPT ![p3].data = p4 + 1, ![p3].of = p3]
    <3> DEFINE e == [data |-> p4 + 1, sent |-> p5[p3].sent, of |-> p3, for |-> p5[p3].for]
    <3>1. e \in Qu!Entries /\ Qu!OwnEntry(p3, e)
      BY <1>1, <2>1 DEF Qu!Entries, Qu!OwnEntry
    <3>2. [p5[p3] EXCEPT !.data = p4 + 1, !.of = p3] = e
      BY <1>1, StoredIn, Zenon
    <3>3. p5' = [p5 EXCEPT ![p3] = [p5[p3] EXCEPT !.data = p4 + 1, !.of = p3]]
      BY <1>1, <2>4, Zenon DEF Qu!EntryInv
    <3> HIDE DEF e
    <3> QED BY <1>1, <1>2, <2>1, <3>1, <3>2, <3>3, Zenon
  <2> QED BY <1>1, <1>7, <2>2, <2>3, <2>4, Zenon DEF Qu!Written
<1>8. ASSUME NEW k \in DOMAIN p5, Qu!Answer(k) PROVE Qu!EntryInv'
  <2>1. PICK v \in Qu!Answers(p5[k], p4) :
           p5' = [p5 EXCEPT ![k] = [data |-> v, sent |-> 0, of |-> p5[k].for, for |-> "none"]]
    BY <1>8, Zenon DEF Qu!Answer
  <2>2. p1' = p1 /\ p3' = p3 /\ p4' = p4
    BY <1>8, Zenon DEF Qu!Answer
  <2> DEFINE e == [data |-> v, sent |-> 0, of |-> p5[k].for, for |-> "none"]
  <2>3. p5[k].sent \in Nat \ {0} /\ v \in Nat
    BY <1>1, <2>1 DEF Qu!Answers, Qu!Entries
  <2>4. e \in Qu!Entries /\ Qu!OwnEntry(k, e)
    BY <1>1, <2>3 DEF Qu!Entries, Qu!OwnEntry, Qu!Names
  <2> HIDE DEF e
  <2>5. p5' = [p5 EXCEPT ![k] = e]
    BY <2>1, Zenon DEF e
  <2> QED BY <1>1, <1>2, <2>2, <2>4, <2>5, Zenon
<1>9. ASSUME NEW k \in DOMAIN p5, Qu!FetchFailed(k) PROVE Qu!EntryInv'
  <2>1. p1' = p1 /\ p3' = p3 /\ p4' = p4
    BY <1>9, Zenon DEF Qu!FetchFailed
  <2> DEFINE lost == [data |-> -1, sent |-> 0, of |-> p5[k].for, for |-> "none"]
             kept == [data |-> p5[k].data, sent |-> 0, of |-> p5[k].of, for |-> "none"]
  <2>2. p5[k].sent # 0 /\ p5[k].for = k
    BY <1>1, <1>9, Zenon DEF Qu!FetchFailed, Qu!OwnEntry
  <2>3. p1.lenient => lost \in Qu!Entries /\ Qu!OwnEntry(k, lost)
    BY <1>1, <2>2 DEF Qu!Entries, Qu!OwnEntry, Qu!Names
  <2>4. kept \in Qu!Entries /\ Qu!OwnEntry(k, kept)
    BY <1>1, <2>2, Zenon DEF Qu!Entries, Qu!OwnEntry, Qu!Names
  <2>5. [p5[k] EXCEPT !.sent = 0, !.for = "none"] = kept
    <3>1. p5[k] \in Qu!Entries
      BY <1>1, Zenon
    <3> QED BY <3>1, SentFor, Zenon
  <2>6. p5' = [p5 EXCEPT ![k] = IF p1.lenient THEN lost ELSE kept]
    BY <1>9, <2>5, Zenon DEF Qu!FetchFailed
  <2> HIDE DEF lost, kept
  <2> QED BY <1>1, <1>2, <2>1, <2>3, <2>4, <2>6, Zenon
<1> QED BY <1>4, <1>5, <1>6, <1>7, <1>8, <1>9, Zenon DEF Qu!Next

\* The mutation of a page is one that writes what the page reads.
LEMMA WriteNext == Qu!WriteInv /\ [Qu!Next]_(Qu!vars) => Qu!WriteInv'
<1> SUFFICES ASSUME Qu!WriteInv, [Qu!Next]_(Qu!vars) PROVE Qu!WriteInv'
  BY Zenon
<1>1. p1' = p1 /\ p2' = p2
  BY Zenon DEF Qu!Next, Qu!vars, Qu!Move, Qu!Answer, Qu!FetchFailed, Qu!Refetch, Qu!Ask, Qu!Write, Qu!Written, Qu!WriteFailed, Qu!Elsewhere
<1>2. p6' \in {p6, "none"} \/ Qu!Write
  BY Zenon DEF Qu!Next, Qu!vars, Qu!Move, Qu!Answer, Qu!FetchFailed, Qu!Refetch, Qu!Ask, Qu!Written, Qu!WriteFailed, Qu!Elsewhere
<1>3. Qu!Offered(p1)' = Qu!Offered(p1)
  BY <1>1, Zenon DEF Qu!Offered
<1> QED BY <1>1, <1>2, <1>3, Zenon DEF Qu!WriteInv, Qu!Write

\* What is owed stays on its way: a request already in flight is repeated after the write.
LEMMA OwedNext == Qu!SafeInv /\ [Qu!Next]_(Qu!vars) => Qu!OwedInv'
<1> SUFFICES ASSUME Qu!SafeInv, [Qu!Next]_(Qu!vars) PROVE Qu!OwedInv'
  BY Zenon
<1>1. /\ \A k \in DOMAIN p5 : Qu!Key(k) = k /\ p5[k] \in Qu!Entries
      /\ p3 \in DOMAIN p5 /\ p4 \in Nat \ {0} /\ p1 \in Qu!Queries
  <2>1. \A k \in DOMAIN p5 : k \in Qu!Views(p1)
    BY Zenon DEF Qu!SafeInv, Qu!EntryInv
  <2> QED BY <2>1, KeyIsView, Zenon DEF Qu!SafeInv, Qu!EntryInv
<1>2. /\ p1' = p1 /\ p2' = p2
      /\ \A v : Qu!Key(v)' = Qu!Key(v)
  <2>1. p1' = p1 /\ p2' = p2
    BY Zenon DEF Qu!Next, Qu!vars, Qu!Move, Qu!Answer, Qu!FetchFailed, Qu!Refetch, Qu!Ask, Qu!Write, Qu!Written, Qu!WriteFailed, Qu!Elsewhere
  <2> QED BY <2>1, Zenon DEF Qu!Key
<1>3. /\ p7 \in Nat /\ p7 <= p4
      /\ p7 # 0 => Qu!Owes(p5[p3]) \/ Qu!RefreshesLess(p2, p1.reads)
  BY <1>1, Zenon DEF Qu!SafeInv, Qu!OwedInv, Qu!Entry
<1>4. /\ p5[p3].data \in Int /\ p5[p3].sent \in Nat
  BY <1>1, Zenon DEF Qu!Entries
<1>5. Qu!RefreshesLess(p2, p1.reads)' = Qu!RefreshesLess(p2, p1.reads)
  BY <1>2, Zenon DEF Qu!RefreshesLess
<1>6. ASSUME p7' \in Nat, p7' <= p4', p3' = p3,
             p7' # 0 => Qu!Owes(p5[p3])' \/ Qu!RefreshesLess(p2, p1.reads)
      PROVE  Qu!OwedInv'
  BY <1>1, <1>2, <1>5, <1>6, Zenon DEF Qu!OwedInv, Qu!Entry
<1>7. ASSUME NEW v \in DOMAIN p5, Qu!Move(v) PROVE Qu!OwedInv'
  BY <1>1, <1>7 DEF Qu!Move, Qu!OwedInv
<1>8. ASSUME Qu!Refetch \/ Qu!Ask PROVE Qu!OwedInv'
  <2>1. /\ p5' = [p5 EXCEPT ![p3] = Qu!Send(@, p3, p4, Qu!Fetch)]
        /\ p5[p3].sent = 0 /\ p7' = p7 /\ p4' = p4 /\ p3' = p3
    BY <1>1, <1>8, Zenon DEF Qu!Refetch, Qu!Ask, Qu!Entry
  <2>2. p5'[p3] = Qu!Send(p5[p3], p3, p4, Qu!Fetch)
    BY <1>1, <2>1, Zenon
  <2>3. p5'[p3].sent = p4
    BY <1>1, <2>1, <2>2, SendFetch
  <2> QED BY <1>1, <1>3, <1>6, <2>1, <2>3, Zenon DEF Qu!Owes
<1>9. ASSUME p5' = p5, p7' = p7, p3' = p3, p4' \in Nat, p4 <= p4' PROVE Qu!OwedInv'
  BY <1>1, <1>3, <1>6, <1>9 DEF Qu!Owes
<1>10. CASE Qu!Write \/ Qu!WriteFailed \/ Qu!Elsewhere \/ UNCHANGED Qu!vars
  BY <1>1, <1>9, <1>10 DEF Qu!Write, Qu!WriteFailed, Qu!Elsewhere, Qu!vars
<1>11. CASE Qu!Written
  <2>1. p3' = p3 /\ p4' = p4 + 1 /\ p7' \in {p7, p4 + 1}
    BY <1>11, Zenon DEF Qu!Written
  <2>2. CASE p5' = p5 /\ p7' = p7
    BY <1>1, <1>9, <2>1, <2>2
  <2>3. CASE p5' = [p5 EXCEPT ![p3] = Qu!Send(@, p3, p4 + 1, Qu!Invalidate)]
    <3>1. p5'[p3] = Qu!Send(p5[p3], p3, p4 + 1, Qu!Invalidate)
      BY <1>1, <2>3, Zenon
    <3>2. p5'[p3].sent = p4 + 1 \/ (p5'[p3] = p5[p3] /\ p5[p3].data = 0 /\ p5[p3].sent # 0)
      BY <1>1, <3>1, SendInvalidate
    <3>3. p7' = p7 \/ p5[p3].data # 0
      BY <1>1, <1>11, Zenon DEF Qu!Written, Qu!Entry
    <3> QED BY <1>1, <1>3, <1>4, <1>6, <2>1, <3>2, <3>3 DEF Qu!Owes
  <2>4. CASE p5' = [p5 EXCEPT ![p3].data = p4 + 1, ![p3].of = p3] /\ p7' = p7
    <3>1. p5'[p3] = [p5[p3] EXCEPT !.data = p4 + 1, !.of = p3]
      BY <1>1, <2>4, Zenon DEF Qu!SafeInv, Qu!EntryInv
    <3>2. [p5[p3] EXCEPT !.data = p4 + 1, !.of = p3]
             = [data |-> p4 + 1, sent |-> p5[p3].sent, of |-> p3, for |-> p5[p3].for]
      BY <1>1, StoredIn, Zenon
    <3>3. p5'[p3].data = p4 + 1 /\ p5'[p3].sent = p5[p3].sent
      BY <3>1, <3>2, Zenon
    <3> QED BY <1>1, <1>3, <1>4, <1>6, <2>1, <2>4, <3>3 DEF Qu!Owes
  <2>5. CASE Qu!RefreshesLess(p2, p1.reads)
    BY <1>1, <1>3, <1>6, <2>1, <2>5
  <2>6. CASE Refreshing(p2, p1.reads)
    <3>1. CASE p2.effect = "store"
      BY <1>1, <1>11, <2>2, <2>4, <3>1, Zenon DEF Qu!Written
    <3>2. CASE p2.effect = "invalidate" /\ p1.reads \in p2.refreshes
      <4>1. CASE p3 # "unset"
        BY <1>1, <1>11, <2>3, <3>2, <4>1, Zenon DEF Qu!Written
      <4>2. CASE p3 = "unset"
        <5>1. p6 # p3
          BY <1>11, <4>2, Zenon DEF Qu!Written, Qu!SafeInv, Qu!WriteInv
        <5> QED BY <1>11, <2>2, <3>2, <4>2, <5>1, Zenon DEF Qu!Written
      <4> QED BY <4>1, <4>2, Zenon
    <3> QED BY <2>6, <3>1, <3>2, Zenon DEF Refreshing
  <2>7. p2 \in Qu!Mutations /\ p1.reads \in p2.writes
    BY <1>11, Zenon DEF Qu!Written, Qu!SafeInv, Qu!WriteInv, Qu!Offered
  <2> QED BY <2>5, <2>6, <2>7, AllRefreshing, Zenon
<1>12. ASSUME NEW k \in DOMAIN p5, Qu!Answer(k) PROVE Qu!OwedInv'
  <2>1. PICK v \in Qu!Answers(p5[k], p4) :
           p5' = [p5 EXCEPT ![k] = [data |-> v, sent |-> 0, of |-> p5[k].for, for |-> "none"]]
    BY <1>12, Zenon DEF Qu!Answer
  <2>2. p7' = p7 /\ p3' = p3 /\ p4' = p4
    BY <1>12, Zenon DEF Qu!Answer
  <2>3. p5[k].sent \in Nat \ {0} /\ v \in Nat /\ v >= p5[k].sent
    BY <1>1, <2>1 DEF Qu!Answers, Qu!Entries
  <2>4. CASE k = p3
    <3>1. p5'[p3].data = v /\ p5'[p3].sent = 0
      BY <1>1, <2>1, <2>4, Zenon
    <3> QED BY <1>1, <1>3, <1>6, <2>2, <2>3, <2>4, <3>1 DEF Qu!Owes
  <2>5. CASE k # p3
    <3>1. p5'[p3] = p5[p3]
      BY <1>1, <2>1, <2>5, Zenon
    <3> QED BY <1>1, <1>3, <1>6, <2>2, <3>1, Zenon DEF Qu!Owes
  <2> QED BY <2>4, <2>5, Zenon
<1>13. ASSUME NEW k \in DOMAIN p5, Qu!FetchFailed(k) PROVE Qu!OwedInv'
  <2>1. p3' = p3 /\ p4' = p4 /\ p7' = IF k = p3 THEN 0 ELSE p7
    BY <1>1, <1>13, Zenon DEF Qu!FetchFailed
  <2>2. CASE k = p3
    BY <1>1, <1>6, <2>1, <2>2
  <2>3. CASE k # p3
    <3>1. p5'[p3] = p5[p3]
      BY <1>1, <1>13, <2>3, Zenon DEF Qu!FetchFailed
    <3> QED BY <1>1, <1>3, <1>6, <2>1, <2>3, <3>1, Zenon DEF Qu!Owes
  <2> QED BY <2>2, <2>3, Zenon
<1> QED BY <1>7, <1>8, <1>10, <1>11, <1>12, <1>13, Zenon DEF Qu!Next

\* A page starts with at most the request of its first view in flight, and owes nothing.
LEMMA QueriesInit == Qu!Init => Qu!SafeInv
<1> SUFFICES ASSUME Qu!Init PROVE Qu!SafeInv
  BY Zenon
<1>1. PICK v \in Qu!Views(p1) : p5 = [k \in {"base", v} |->
               IF k = "base" /\ p1.runs # "asked"
                 THEN [Qu!Blank EXCEPT !.sent = 1, !.for = "base"] ELSE Qu!Blank]
  BY Zenon DEF Qu!Init
<1>2. "base" \in Qu!Views(p1) /\ p3 = "base" /\ p4 = 1 /\ p7 = 0 /\ p6 = "none" /\ p1 \in Qu!Queries
  BY Zenon DEF Qu!Init, Qu!Views
<1>3. /\ Qu!Blank \in Qu!Entries /\ [Qu!Blank EXCEPT !.sent = 1, !.for = "base"] \in Qu!Entries
      /\ \A k : Qu!OwnEntry(k, Qu!Blank)
      /\ Qu!OwnEntry("base", [Qu!Blank EXCEPT !.sent = 1, !.for = "base"])
  <2>1. Qu!Blank \in Qu!Entries /\ Qu!Blank.data = 0 /\ Qu!Blank.sent = 0 /\ Qu!Blank.of = "none"
    BY DEF Qu!Blank, Qu!Entries, Qu!Names
  <2>2. [Qu!Blank EXCEPT !.sent = 1, !.for = "base"] = [data |-> Qu!Blank.data, sent |-> 1, of |-> Qu!Blank.of, for |-> "base"]
    BY <2>1, SentFor, Zenon
  <2> QED BY <1>2, <2>1, <2>2 DEF Qu!Entries, Qu!Names, Qu!OwnEntry
<1>4. \A k \in DOMAIN p5 : p5[k] \in Qu!Entries /\ Qu!OwnEntry(k, p5[k])
  BY <1>1, <1>3, Zenon
<1>5. DOMAIN p5 = {"base", v} /\ p5 = [k \in DOMAIN p5 |-> p5[k]]
  BY <1>1, Zenon
<1>6. Qu!EntryInv
  BY <1>2, <1>4, <1>5 DEF Qu!EntryInv
<1>7. Qu!WriteInv
  BY <1>2, Zenon DEF Qu!Init, Qu!WriteInv
<1> QED BY <1>2, <1>6, <1>7 DEF Qu!SafeInv, Qu!OwedInv

\* Every step of a page keeps the invariant.
LEMMA QueriesNext == Qu!SafeInv /\ [Qu!Next]_(Qu!vars) => Qu!SafeInv'
BY EntryNext, WriteNext, OwedNext, Zenon DEF Qu!SafeInv

\* What the invariant says of the page on screen.
LEMMA QueriesSafe == Qu!SafeInv => Qu!ShownIsAsked /\ Qu!WritesAreShown /\ Qu!EmptyIsTrue
<1> SUFFICES ASSUME Qu!SafeInv PROVE Qu!ShownIsAsked /\ Qu!WritesAreShown /\ Qu!EmptyIsTrue
  BY Zenon
<1>1. Qu!Entry = p5[p3] /\ Qu!OwnEntry(p3, Qu!Entry) /\ Qu!Entry.data \in Int /\ Qu!Entry.sent \in Nat
  <2>1. Qu!Key(p3) = p3 /\ p3 \in DOMAIN p5 /\ p5[p3] \in Qu!Entries /\ Qu!OwnEntry(p3, p5[p3])
    <3>1. p3 \in Qu!Views(p1)
      BY Zenon DEF Qu!SafeInv, Qu!EntryInv
    <3> QED BY <3>1, KeyIsView, Zenon DEF Qu!SafeInv, Qu!EntryInv
  <2> QED BY <2>1, Zenon DEF Qu!Entry, Qu!Entries
<1>2. Qu!ShownIsAsked
  BY <1>1, Zenon DEF Qu!ShownIsAsked, Qu!OwnEntry
<1>3. Qu!WritesAreShown
  BY <1>1, Zenon DEF Qu!SafeInv, Qu!OwedInv, Qu!WritesAreShown, Qu!OwedIsShown, Qu!Owes
<1>4. ASSUME NEW p \in Qu!Pages \ Qu!SayNothing, p1 \in p.shows PROVE Qu!Screen(p) # "nothing"
  <2>1. Guarded(p)
    BY <1>4, AllGuarded, Zenon
  <2>2. ~ p1.lenient /\ p.loading = "loader" /\ p.failed = "error"
    BY <1>4, <2>1, Zenon DEF Guarded
  <2>3. Qu!Entry.data >= 0
    BY <1>1, <2>2 DEF Qu!OwnEntry
  <2> QED BY <1>1, <2>2, <2>3 DEF Qu!Screen
<1> QED BY <1>2, <1>3, <1>4, Zenon DEF Qu!EmptyIsTrue

(***************************************************************************)
(* The console's lists                                                     *)
(***************************************************************************)

\* A step of the lists is a step of the part that runs.
LEMMA ListsSteps ==
    ASSUME [ListsNext]_vars
    PROVE  /\ part' = part
           /\ part = "firmware" => [Fw!Next]_(Fw!vars)
           /\ part = "queries" => [Qu!Next]_(Qu!vars)
BY DEF ListsNext, vars, Fw!vars, Qu!vars

\* A behaviour of the lists starts in a state of its part.
LEMMA ListsStart ==
    ASSUME ListsInit
    PROVE  /\ part = "firmware" => Fw!Init
           /\ part = "queries" => Qu!Init
BY DEF ListsInit

ListsInv ==
    /\ part = "firmware" => Fw!TabInv
    /\ part = "queries" => Qu!SafeInv

\* The parts' invariants are invariants of the lists.
LEMMA ListsSafe == ListsSpec => []ListsInv
<1>1. ListsInit => ListsInv
  BY ListsStart, TabInit, DialogInit, QueriesInit, Zenon DEF ListsInv, Fw!TabInv
<1>2. ListsInv /\ [ListsNext]_vars => ListsInv'
  <2> SUFFICES ASSUME ListsInv, [ListsNext]_vars PROVE ListsInv'
    OBVIOUS
  <2>1. part' = part
    BY ListsSteps, Zenon
  <2>2. part = "firmware" => Fw!TabInv'
    BY ListsSteps, TabNext, DialogNext, Zenon DEF ListsInv, Fw!TabInv
  <2>3. part = "queries" => Qu!SafeInv'
    BY ListsSteps, QueriesNext, Zenon DEF ListsInv
  <2> QED BY <2>1, <2>2, <2>3, Zenon DEF ListsInv
<1> QED BY <1>1, <1>2, PTL DEF ListsSpec

\* The firmware tab implements ServerView: whatever the polling, the window's focus, the
\* invalidation after a create and lost answers do to the one cache entry, the list on screen is a
\* state the server has reached and never an earlier one than before (firmware/hooks.ts).
THEOREM FirmwareForward == ListsSpec => ShowsForward
<1>1. ListsInit => View!Init
  <2> SUFFICES ASSUME ListsInit PROVE View!Init
    OBVIOUS
  <2>1. CASE part = "firmware"
    <3>1. PICK old \in Initial : p1 = <<old>>
      BY <2>1, ListsStart DEF Fw!Init
    <3>2. p2 = [data |-> 0, sent |-> 1]
      BY <2>1, ListsStart DEF Fw!Init, Fw!Fetch, Fw!Empty
    <3> QED BY <2>1, <3>1, <3>2 DEF View!Init, Fw!now
  <2>2. CASE part # "firmware"
    BY <2>2 DEF View!Init
  <2> QED BY <2>1, <2>2, Zenon
<1>2. ListsInv /\ [ListsNext]_vars
        => [View!Change \/ View!Show]_<<IF part = "firmware" THEN Fw!now ELSE 1,
                                        IF part = "firmware" THEN p2.data ELSE 0>>
  <2> SUFFICES ASSUME ListsInv, [ListsNext]_vars
               PROVE  \/ View!Change \/ View!Show
                      \/ UNCHANGED <<IF part = "firmware" THEN Fw!now ELSE 1,
                                     IF part = "firmware" THEN p2.data ELSE 0>>
    BY Zenon
  <2>1. part' = part
    BY ListsSteps, Zenon
  <2>2. CASE part # "firmware"
    BY <2>1, <2>2
  <2>3. CASE part = "firmware"
    <3>1. ServerMoves \/ PageMoves \/ UNCHANGED <<Fw!now, p2.data>>
      BY <2>3, ListsSteps, TabForward, Zenon DEF ListsInv, Fw!TabInv
    <3> QED BY <2>1, <2>3, <3>1 DEF View!Change, View!Show, ServerMoves, PageMoves
  <2> QED BY <2>2, <2>3, Zenon
<1> QED BY <1>1, <1>2, ListsSafe, PTL DEF ListsSpec, ShowsForward, View!Spec

\* When the creation of an action ends with a fresh list, a page that had a list before shows that
\* action: the refetch mutateAsync waits for was sent after the server stored it
\* (useCreateFirmwareAction, onSuccess).
THEOREM CreatedIsShown == ListsSpec => ReadYourWrites
<1>1. ListsInv /\ [ListsNext]_vars => [part = "firmware" => Fw!ReadStep]_vars
  <2> SUFFICES ASSUME ListsInv, ListsNext, part = "firmware" PROVE Fw!ReadStep
    OBVIOUS
  <2>1. Fw!Next
    BY DEF ListsNext
  <2> QED BY <2>1, TabReads DEF ListsInv, Fw!TabInv
<1> QED BY <1>1, ListsSafe, PTL DEF ListsSpec, ReadYourWrites

\* Only what the last check reports is ever confirmed, at a time set in the very dialog: neither a
\* later check nor an earlier dialog reaches behind an open one (FirmwareActions.tsx, open).
THEOREM DialogSafe == ListsSpec => []ConfirmsTheOffered
<1>1. ListsInv => ConfirmsTheOffered
  BY Zenon DEF ListsInv, ConfirmsTheOffered, Fw!TabInv, Fw!DialogInv
<1> QED BY <1>1, ListsSafe, PTL

\* What a page shows was requested for what the page is about, whichever of the hooks it uses and
\* however the operator moves between views while answers are late (the query keys, frontend/src).
THEOREM ShownIsOurs == ListsSpec => []ShownIsAsked
<1>1. ListsInv => ShownIsAsked
  BY QueriesSafe, Zenon DEF ListsInv, ShownIsAsked
<1> QED BY <1>1, ListsSafe, PTL

\* After a mutation succeeded, the first answer the page shows contains it; only the mutations
\* that refresh less are left out (the onSuccess of the mutations, frontend/src).
THEOREM WritesComeBack == ListsSpec => []WritesAreShown
<1>1. ListsInv => WritesAreShown
  BY QueriesSafe, Zenon DEF ListsInv, WritesAreShown
<1> QED BY <1>1, ListsSafe, PTL

\* A page says that there is nothing only when the server said so; only the pages of SayNothing are
\* left out (the early returns of the pages, frontend/src).
THEOREM NothingIsTrue == ListsSpec => []EmptyIsTrue
<1>1. ListsInv => EmptyIsTrue
  BY QueriesSafe, Zenon DEF ListsInv, EmptyIsTrue
<1> QED BY <1>1, ListsSafe, PTL

(***************************************************************************)
(* The types of the lists                                                  *)
(***************************************************************************)

\* The check of the firmware tab has an answer or waits for it.
LEMMA TabTypes ==
    /\ Fw!Init => p3 \in Fw!Results \cup {"none", "pending"}
    /\ p3 \in Fw!Results \cup {"none", "pending"} /\ [Fw!Next]_(Fw!vars) => p3' \in Fw!Results \cup {"none", "pending"}
<1>1. Fw!Init => p3 \in Fw!Results \cup {"none", "pending"}
  BY Zenon DEF Fw!Init
<1>2. ASSUME p3 \in Fw!Results \cup {"none", "pending"}, [Fw!Next]_(Fw!vars) PROVE p3' \in Fw!Results \cup {"none", "pending"}
  <2>1. p3' = p3 \/ Fw!Check \/ Fw!CheckAnswered
    BY <1>2, Zenon DEF Fw!Next, Fw!vars, Fw!PickTime, Fw!Cancel, Fw!Created, Fw!CreateFailed, Fw!Open, Fw!Fire,
           Fw!Answer, Fw!FetchFailed, Fw!Poll, Fw!Focus, Fw!Work
  <2> QED BY <1>2, <2>1, Zenon DEF Fw!Check, Fw!CheckAnswered
<1> QED BY <1>1, <1>2, Zenon

\* The tab's invariant gives its types.
LEMMA TabTyped == Fw!TabInv /\ p3 \in Fw!Results \cup {"none", "pending"} => Fw!TypeOK
<1> SUFFICES ASSUME Fw!TabInv, p3 \in Fw!Results \cup {"none", "pending"} PROVE Fw!TypeOK
  BY Zenon
<1>1. Fw!now \in Nat /\ Fw!now >= 1 /\ p1 \in Seq(Seq(Fw!Statuses))
  BY DEF Fw!TabInv, Fw!CacheInv, Fw!now
<1>2. p2 \in [data : Nat, sent : Nat] /\ p2.data \in 0 .. Fw!now /\ p2.sent \in 0 .. Fw!now
  BY <1>1 DEF Fw!TabInv, Fw!CacheInv
<1>3. p7 \in [phase : {"idle", "posting", "settling"}, at : Nat] /\ p7.at \in 0 .. Fw!now
  BY <1>1 DEF Fw!TabInv, Fw!CreateInv
<1>4. p2 \in [data : 0 .. Fw!now, sent : 0 .. Fw!now]
  BY <1>2, Zenon
<1>5. p7 \in [phase : {"idle", "posting", "settling"}, at : 0 .. Fw!now]
  BY <1>3, Zenon
<1> QED BY <1>1, <1>4, <1>5, Zenon DEF Fw!TypeOK, Fw!TabInv, Fw!DialogInv

\* Every step of a page keeps its entries and its mutation within what the server has reached.
LEMMA QueriesBound == Qu!EntryInv /\ Qu!BoundInv /\ [Qu!Next]_(Qu!vars) => Qu!BoundInv'
<1> SUFFICES ASSUME Qu!EntryInv, Qu!BoundInv, [Qu!Next]_(Qu!vars) PROVE Qu!BoundInv'
  BY Zenon
<1> DEFINE Within(e, n) == e.data \in -1 .. n /\ e.sent \in 0 .. n
<1>1. /\ \A k \in DOMAIN p5 : Qu!Key(k) = k /\ k \in Qu!Names /\ p5[k] \in Qu!Entries /\ Within(p5[k], p4)
      /\ p3 \in DOMAIN p5 /\ p4 \in Nat \ {0} /\ p4 <= MaxNow /\ MaxNow \in Nat
      /\ p6 \in Qu!Names /\ (p6 # "none" => p4 < MaxNow)
  <2>1. \A k \in DOMAIN p5 : k \in Qu!Views(p1)
    BY Zenon DEF Qu!EntryInv
  <2> QED BY <2>1, KeyIsView, MaxNowAssumption, Zenon DEF Qu!EntryInv, Qu!BoundInv, Qu!Names
<1>2. p1' = p1 /\ Qu!Names' = Qu!Names
  <2>1. p1' = p1
    BY Zenon DEF Qu!Next, Qu!vars, Qu!Move, Qu!Answer, Qu!FetchFailed, Qu!Refetch, Qu!Ask, Qu!Write, Qu!Written, Qu!WriteFailed, Qu!Elsewhere
  <2> QED BY <2>1, Zenon DEF Qu!Names, Qu!Views
<1>3. \A e \in Qu!Entries : Within(e, p4) => Within(e, p4 + 1)
  BY <1>1 DEF Qu!Entries
<1>4. p4 \in 0 .. p4 /\ p4 + 1 \in 0 .. p4 + 1 /\ p4 + 1 \in -1 .. p4 + 1 /\ 0 \in 0 .. p4 /\ -1 \in -1 .. p4
  BY <1>1
<1>5. ASSUME NEW n \in {p4, p4 + 1}, p4' = n, n <= MaxNow, p6' \in Qu!Names, p6' # "none" => n < MaxNow,
             p5' = p5 \/ \E k \in DOMAIN p5 : \E e : p5' = [p5 EXCEPT ![k] = e] /\ Within(e, n)
      PROVE  Qu!BoundInv'
  <2>1. DOMAIN p5' = DOMAIN p5 /\ \A k \in DOMAIN p5 : p5'[k] = p5[k] \/ Within(p5'[k], n)
    BY <1>5, Zenon
  <2>2. \A k \in DOMAIN p5 : Within(p5[k], n)
    BY <1>1, <1>3, <1>5, Zenon
  <2>3. \A k \in DOMAIN p5' : Within(p5'[k], n)
    BY <2>1, <2>2, Zenon
  <2> QED BY <1>2, <1>5, <2>3, Zenon DEF Qu!BoundInv
<1>6. ASSUME NEW k \in DOMAIN p5 PROVE Within(Qu!Send(p5[k], k, p4, Qu!Fetch), p4)
  <2>1. p5[k] \in Qu!Entries /\ Within(p5[k], p4) /\ p4 \in Nat
    BY <1>1, Zenon
  <2> DEFINE e == [data |-> p5[k].data, sent |-> p4, of |-> p5[k].of, for |-> k]
  <2>2. Qu!Send(p5[k], k, p4, Qu!Fetch) \in {p5[k], e}
    BY <2>1, SendFetch, Zenon
  <2>3. e.data = p5[k].data /\ e.sent = p4
    BY Zenon
  <2> HIDE DEF e
  <2> QED BY <1>4, <2>1, <2>2, <2>3, Zenon
<1>7. ASSUME NEW v \in DOMAIN p5, Qu!Move(v) PROVE Qu!BoundInv'
  BY <1>1, <1>5, <1>6, <1>7, Zenon DEF Qu!Move
<1>8. CASE Qu!Refetch \/ Qu!Ask
  BY <1>1, <1>5, <1>6, <1>8, Zenon DEF Qu!Refetch, Qu!Ask
<1>9. CASE Qu!Write \/ UNCHANGED Qu!vars
  BY <1>1, <1>5, <1>9, Zenon DEF Qu!Write, Qu!vars
<1>10. CASE Qu!WriteFailed \/ Qu!Elsewhere
  <2>1. p4 < MaxNow /\ p6' = "none" /\ p4' \in {p4, p4 + 1} /\ p5' = p5
    BY <1>1, <1>10, Zenon DEF Qu!WriteFailed, Qu!Elsewhere
  <2>2. p4' <= MaxNow
    BY <1>1, <2>1
  <2> QED BY <1>5, <2>1, <2>2, Zenon DEF Qu!Names
<1>11. CASE Qu!Written
  <2>1. p4 < MaxNow /\ p6' = "none" /\ p4' = p4 + 1
    BY <1>1, <1>11, Zenon DEF Qu!Written
  <2>2. p4 + 1 <= MaxNow /\ p4 + 1 \in Nat
    BY <1>1, <2>1
  <2>3. p5[p3] \in Qu!Entries /\ Within(p5[p3], p4 + 1)
    BY <1>1, <1>3, Zenon
  <2>4. CASE p5' = [p5 EXCEPT ![p3] = Qu!Send(@, p3, p4 + 1, Qu!Invalidate)]
    <3>1. Within(Qu!Send(p5[p3], p3, p4 + 1, Qu!Invalidate), p4 + 1)
      <4> DEFINE e == [data |-> p5[p3].data, sent |-> p4 + 1, of |-> p5[p3].of,
                       for |-> IF p4 + 1 # p5[p3].sent \/ p5[p3].sent = 0 THEN p3 ELSE p5[p3].for]
      <4>1. Qu!Send(p5[p3], p3, p4 + 1, Qu!Invalidate) \in {p5[p3], e}
        BY <2>2, <2>3, SendInvalidate, Zenon
      <4>2. e.data = p5[p3].data /\ e.sent = p4 + 1
        BY Zenon
      <4> HIDE DEF e
      <4> QED BY <1>4, <2>3, <4>1, <4>2, Zenon
    <3> QED BY <1>1, <1>5, <2>1, <2>2, <2>4, <3>1, Zenon DEF Qu!Names
  <2>5. CASE p5' = [p5 EXCEPT ![p3].data = p4 + 1, ![p3].of = p3]
    <3> DEFINE e == [p5[p3] EXCEPT !.data = p4 + 1, !.of = p3]
    <3>1. e = [data |-> p4 + 1, sent |-> p5[p3].sent, of |-> p3, for |-> p5[p3].for]
      BY <2>3, StoredIn, Zenon
    <3>2. Within(e, p4 + 1)
      BY <1>4, <2>3, <3>1, Zenon
    <3>3. p5' = [p5 EXCEPT ![p3] = e]
      BY <1>1, <2>5, Zenon DEF Qu!EntryInv
    <3> HIDE DEF e
    <3> QED BY <1>1, <1>5, <2>1, <2>2, <3>2, <3>3, Zenon DEF Qu!Names
  <2>6. CASE p5' = p5
    BY <1>5, <2>1, <2>2, <2>6, Zenon DEF Qu!Names
  <2> QED BY <1>1, <1>11, <2>4, <2>5, <2>6, Zenon DEF Qu!Written
<1>12. ASSUME NEW k \in DOMAIN p5, Qu!Answer(k) PROVE Qu!BoundInv'
  <2>1. PICK v \in Qu!Answers(p5[k], p4) :
           p5' = [p5 EXCEPT ![k] = [data |-> v, sent |-> 0, of |-> p5[k].for, for |-> "none"]]
    BY <1>12, Zenon DEF Qu!Answer
  <2>2. p4' = p4 /\ p6' = p6
    BY <1>12, Zenon DEF Qu!Answer
  <2>3. v \in -1 .. p4
    BY <1>1, <2>1 DEF Qu!Answers, Qu!Entries
  <2>4. Within([data |-> v, sent |-> 0, of |-> p5[k].for, for |-> "none"], p4)
    BY <1>4, <2>3, Zenon
  <2> QED BY <1>1, <1>5, <2>1, <2>2, <2>4, Zenon
<1>13. ASSUME NEW k \in DOMAIN p5, Qu!FetchFailed(k) PROVE Qu!BoundInv'
  <2> DEFINE lost == [data |-> -1, sent |-> 0, of |-> p5[k].for, for |-> "none"]
             kept == [data |-> p5[k].data, sent |-> 0, of |-> p5[k].of, for |-> "none"]
  <2>1. p4' = p4 /\ p6' = p6
    BY <1>13, Zenon DEF Qu!FetchFailed
  <2>2. p5[k] \in Qu!Entries /\ Within(p5[k], p4)
    BY <1>1, Zenon
  <2>3. [p5[k] EXCEPT !.sent = 0, !.for = "none"] = kept
    BY <2>2, SentFor, Zenon
  <2>4. Within(lost, p4) /\ Within(kept, p4)
    BY <1>4, <2>2, Zenon
  <2>5. p5' = [p5 EXCEPT ![k] = lost] \/ p5' = [p5 EXCEPT ![k] = kept]
    BY <1>13, <2>3, Zenon DEF Qu!FetchFailed
  <2> HIDE DEF lost, kept
  <2> QED BY <1>1, <1>5, <2>1, <2>4, <2>5, Zenon
<1> QED BY <1>7, <1>8, <1>9, <1>10, <1>11, <1>12, <1>13, Zenon DEF Qu!Next

\* A page starts at the server's first state.
LEMMA QueriesBounded == Qu!Init => Qu!BoundInv
<1> SUFFICES ASSUME Qu!Init PROVE Qu!BoundInv
  BY Zenon
<1> DEFINE first == [Qu!Blank EXCEPT !.sent = 1, !.for = "base"]
<1>1. p4 = 1 /\ p6 = "none" /\ \A k \in DOMAIN p5 : p5[k] \in {first, Qu!Blank}
  BY Zenon DEF Qu!Init
<1>2. 1 <= MaxNow /\ 0 \in 0 .. 1 /\ 1 \in 0 .. 1 /\ 0 \in -1 .. 1
  BY MaxNowAssumption
<1>3. Qu!Blank.data = 0 /\ Qu!Blank.sent = 0 /\ first.data = 0 /\ first.sent = 1
  BY DEF Qu!Blank
<1> HIDE DEF first
<1> QED BY <1>1, <1>2, <1>3, Zenon DEF Qu!BoundInv, Qu!Names

\* The bounds and the page's invariant give its types.
LEMMA QueriesTyped == Qu!SafeInv /\ Qu!BoundInv => Qu!TypeOK
<1> SUFFICES ASSUME Qu!SafeInv, Qu!BoundInv PROVE Qu!TypeOK
  BY Zenon
<1>1. p4 \in 1 .. MaxNow /\ p7 \in 0 .. p4
  BY MaxNowAssumption DEF Qu!SafeInv, Qu!EntryInv, Qu!OwedInv, Qu!BoundInv
<1>2. p2 \in Qu!Mutations \cup {Qu!Nothing}
  BY Zenon DEF Qu!SafeInv, Qu!WriteInv, Qu!Offered
<1> QED BY <1>1, <1>2, Zenon DEF Qu!SafeInv, Qu!EntryInv, Qu!BoundInv, Qu!TypeOK, Qu!Names

ListsTypes ==
    /\ part = "firmware" => Fw!TypeOK
    /\ part = "queries" => Qu!TypeOK

\* The variables of the firmware tab and of a page with its query have their types.
THEOREM ListsTypesSafe == ListsSpec => []ListsTypes
<1> DEFINE Inv == /\ ListsInv
                  /\ part = "firmware" => p3 \in Fw!Results \cup {"none", "pending"}
                  /\ part = "queries" => Qu!BoundInv
<1>1. ListsInit => Inv
  BY ListsStart, TabInit, DialogInit, QueriesInit, TabTypes, QueriesBounded, Zenon DEF ListsInv, Fw!TabInv
<1>2. Inv /\ [ListsNext]_vars => Inv'
  <2> SUFFICES ASSUME Inv, [ListsNext]_vars PROVE Inv'
    BY Zenon
  <2>1. part' = part
    BY ListsSteps, Zenon
  <2>2. ListsInv'
    <3>1. part = "firmware" => Fw!TabInv'
      BY ListsSteps, TabNext, DialogNext, Zenon DEF ListsInv, Fw!TabInv
    <3>2. part = "queries" => Qu!SafeInv'
      BY ListsSteps, QueriesNext, Zenon DEF ListsInv
    <3> QED BY <2>1, <3>1, <3>2, Zenon DEF ListsInv
  <2>3. (part = "firmware" => p3 \in Fw!Results \cup {"none", "pending"})'
    BY <2>1, ListsSteps, TabTypes, Zenon DEF Fw!Results
  <2>4. (part = "queries" => Qu!BoundInv)'
    BY <2>1, ListsSteps, QueriesBound, Zenon DEF ListsInv, Qu!SafeInv
  <2> QED BY <2>2, <2>3, <2>4, Zenon
<1>3. Inv => ListsTypes
  BY TabTyped, QueriesTyped, Zenon DEF ListsInv, ListsTypes
<1> QED BY <1>1, <1>2, <1>3, PTL DEF ListsSpec
===============================================================================
