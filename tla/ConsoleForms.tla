----------------------------- MODULE ConsoleForms -----------------------------
(***************************************************************************)
(* The parts of the console that change something: its dialogs and forms,  *)
(* the form generated from a device's catalogue, and the bodies of a       *)
(* template.                                                               *)
(***************************************************************************)
EXTENDS ConsoleTab, Naturals

CONSTANTS
    MaxOpens, MaxSubmits, MaxEdits,        \* the editors
    MaxDeviceChanges, MaxOps, MaxSends,    \* the catalogue
    MaxForms, MaxLoads                     \* the field forms

\* A form that stays on its page has one opening.
ASSUME MaxOpensAssumption == MaxOpens \in Nat \ {0}
ASSUME FormsAssumption ==
    {MaxSubmits, MaxEdits, MaxDeviceChanges, MaxOps, MaxSends, MaxForms, MaxLoads} \subseteq Nat

Ed == INSTANCE Editors WITH
         MaxChanges <- MaxEdits, editor <- p1,
         at <- p2, opened <- p3, seen <- p4, draft <- p5, srv <- p6,
         requests <- p7, presses <- p8, changes <- p9, accepted <- p10

Ca == INSTANCE CatalogEditor WITH
         MaxChanges <- MaxDeviceChanges, host <- p1, box <- p2,
         up <- p3, live <- p4, open <- p5, seeded <- p6, work <- p7,
         touched <- p8, editing <- p9, ops <- p10, flights <- p11,
         changes <- p12, sends <- p13

Fi == INSTANCE FieldForms WITH
         MaxOpens <- MaxForms, kind <- p1, editing <- p2, form <- p3,
         loaded <- p4, body <- p5, typed <- p6, loads <- p7, opens <- p8,
         started <- p9

FormsInit ==
    \/ part = "editors" /\ Ed!Init /\ Unused11
    \/ part = "catalog" /\ Ca!Init
    \/ part = "fields"  /\ Fi!Init /\ Unused10

FormsNext ==
    \/ part = "editors" /\ Ed!Next /\ UNCHANGED <<part, Rest11>>
    \/ part = "catalog" /\ Ca!Next /\ UNCHANGED part
    \/ part = "fields"  /\ Fi!Next /\ UNCHANGED <<part, Rest10>>

FormsSpec == FormsInit /\ [][FormsNext]_vars

(* Editors: what is sent to a row or a tenant was filled in for it          *)
(* (the seeds of the dialogs and forms).                                    *)
DraftIsOurs == part = "editors" => Ed!DraftIsOurs

(* Editors: one opening of a dialog gets at most one request acknowledged   *)
(* (the loading buttons and the closing of the dialogs).                    *)
AcknowledgedOnce == part = "editors" => Ed!AcknowledgedOnce

(* Editors: saving the runtime settings or SMTP secrets changes only the    *)
(* fields that were edited (RuntimeSettingsSection, SmtpSettingsPage).      *)
UntouchedKept == [][part = "editors" => Ed!SaveStep]_vars

(* Catalogue: a proposal turns what the device last said into what the form *)
(* shows (CatalogModelForm, build).                                         *)
ProposalIsTheForm == [][part = "catalog" => Ca!ProposalStep]_vars

(* Field forms: every value in a template's body belongs to the endpoint    *)
(* named in the body, also after a late load (loadFields).                  *)
PayloadIsOfEndpoint == part = "fields" => Fi!PayloadIsOfEndpoint

===============================================================================
