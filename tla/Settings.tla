------------------------------ MODULE Settings ------------------------------
(***************************************************************************)
(* The one row of system settings.  An edit names some of the fields; the   *)
(* service reads the row and writes all of it back, patched.                *)
(***************************************************************************)
EXTENDS Naturals

CONSTANTS
  Field,  \* the fields of the row
  Value,  \* their values
  Edit    \* edits served at a time

VARIABLES
  settings,  \* the row
  edit       \* what each edit is doing

settingsVars == <<settings, edit>>

Patches == UNION {[F -> Value] : F \in SUBSET Field}

\* An edit: the statement it waits for, its patch, the row it has read; and,
\* history, whether the row has changed since.
NoEdit == [step |-> "idle", patch |-> << >>, read |-> << >>, late |-> FALSE]

\* The values of the row the migration inserts.
Default == CHOOSE v \in Value : TRUE

SettingsInit ==
  /\ settings = [f \in Field |-> Default]
  /\ edit = [e \in Edit |-> NoEdit]

-----------------------------------------------------------------------------
\* A patch that has passed validate_patch; which one is chosen where it is first used.
EditSettings(e) ==
  /\ edit[e] = NoEdit
  /\ edit' = [edit EXCEPT ![e].step = "read"]
  /\ UNCHANGED settings

ReadsSettings(e) ==
  /\ edit[e].step = "read"
  /\ \E patch \in Patches :
       edit' = [edit EXCEPT ![e].step = "write", ![e].patch = patch, ![e].read = settings]
  /\ UNCHANGED settings

\* The patch as the row, its missing fields at their defaults.
ReplacedSettings(r) ==
  [f \in Field |-> IF f \in DOMAIN r.patch THEN r.patch[f] ELSE Default]

\* A field without a value in the patch has the value that was read.
PatchedSettings(r) ==
  [f \in Field |-> IF f \in DOMAIN r.patch THEN r.patch[f] ELSE r.read[f]]

WritesSettings(e) ==
  LET row == PatchedSettings(edit[e]) IN
  /\ edit[e].step = "write"
  /\ settings' = row
  /\ edit' = [d \in Edit |->
                IF d = e THEN NoEdit
                ELSE IF edit[d].step = "write"
                     THEN [edit[d] EXCEPT !.late = @ \/ row # settings]
                     ELSE edit[d]]

\* An error of the database, or a client that hangs up.
EditEnds(e) ==
  /\ edit[e].step # "idle"
  /\ edit' = [edit EXCEPT ![e] = NoEdit]
  /\ UNCHANGED settings

-----------------------------------------------------------------------------
\* A step by which an edit changes the fields it names and no other, unless the row
\* was changed between its read and its write.
EditsKeepFields ==
  \A e \in Edit :
    edit[e].step = "write" /\ ~edit[e].late /\ edit'[e].step = "idle" =>
      \A f \in Field \ DOMAIN edit[e].patch : settings'[f] = settings[f]
=============================================================================
