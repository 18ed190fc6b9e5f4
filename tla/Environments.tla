----------------------------- MODULE Environments -----------------------------
(***************************************************************************)
(* The environments of the central service.  An environment may be made     *)
(* from another one that is marked as a template, and refers to it as long  *)
(* as it exists.  The service reads a row, patches it and writes all of it  *)
(* back; the table checks the reference.                                    *)
(***************************************************************************)
EXTENDS Naturals

CONSTANTS
  Env,        \* the ids of environments
  NoEnv,      \* no environment
  Templates,  \* those in the database from the start, marked by hand: no request marks one
  Part,       \* what a request can name: the name, the description, the endpoints
  Inherited,  \* what a copy has from its template unless named: the endpoints
  Content,    \* their values
  Blank,      \* no description, no endpoints
  Visit       \* requests served at a time

ASSUME EnvironmentConstants ==
  NoEnv \notin Env /\ Templates \subseteq Env /\ Inherited \subseteq Part /\ Blank \in Content

VARIABLES
  environments,  \* the row of each id
  made,       \* the ids given out
  visit          \* what each request is doing

environmentVars == <<environments, made, visit>>

Wishes == UNION {[P -> Content] : P \in SUBSET Part}
EnvironmentRows == [here : BOOLEAN, parts : [Part -> Content], template : BOOLEAN,
                    from : Env \cup {NoEnv}]
Nowhere == [here |-> FALSE, parts |-> [p \in Part |-> Blank], template |-> FALSE,
            from |-> NoEnv]
Stands(i) == environments[i].here
IsTemplate(i) == Stands(i) /\ environments[i].template

\* A request: the statement it waits for, the environment it names (the template of
\* a new one), the row it will insert or has read, what an update wants of it; and,
\* history, whether the row has changed since it was read.
VisitSteps == {"idle", "template", "insert", "find", "save", "delete"}
Visits == [step : VisitSteps, id : Env \cup {NoEnv}, wish : Wishes, row : EnvironmentRows,
           late : BOOLEAN]
NoVisit == [step |-> "idle", id |-> NoEnv, wish |-> [p \in {} |-> Blank],
            row |-> Nowhere, late |-> FALSE]

EnvironmentsTypeOK ==
  /\ environments \in [Env -> EnvironmentRows]
  /\ made \subseteq Env
  /\ visit \in [Visit -> Visits]
  /\ \A i \in Env : Stands(i) => i \in made
  /\ \A v \in Visit :
       visit[v].step \in {"template", "find", "save", "delete"} => visit[v].id \in made

EnvironmentsInit ==
  /\ environments = [i \in Env |-> IF i \in Templates
                                   THEN [Nowhere EXCEPT !.here = TRUE, !.template = TRUE]
                                   ELSE Nowhere]
  /\ made = Templates
  /\ visit = [v \in Visit |-> NoVisit]

-----------------------------------------------------------------------------
\* The wish as the row, what it does not name blank.
ReplacedEnvironment(row, wish) ==
  [row EXCEPT !.parts = [p \in Part |-> IF p \in DOMAIN wish THEN wish[p] ELSE Blank]]

\* A row that is written: what the wish names, and otherwise what it had.
PatchedEnvironment(row, wish) ==
  [row EXCEPT !.parts = [p \in Part |-> IF p \in DOMAIN wish THEN wish[p] ELSE @[p]]]

NewEnvironment == [Nowhere EXCEPT !.here = TRUE]

\* A copy does not keep the description of its template.
FromTemplate(i) ==
  [NewEnvironment EXCEPT
     !.parts = [p \in Part |-> IF p \in Inherited THEN environments[i].parts[p] ELSE Blank],
     !.from = i]

Turns(v, r) ==
  /\ visit' = [visit EXCEPT ![v] = r]
  /\ UNCHANGED <<environments, made>>

(* Requests begin.  What one wants is chosen where the service first uses it; a *)
(* name, if it gives one, is not empty.                                        *)

CreateEnvironment(v) ==
  /\ visit[v] = NoVisit
  /\ \/ \E wish \in Wishes :
          Turns(v, [NoVisit EXCEPT !.step = "insert",
                                   !.row = PatchedEnvironment(NewEnvironment, wish)])
     \/ \E i \in made : Turns(v, [NoVisit EXCEPT !.step = "template", !.id = i])

UpdateEnvironment(v) ==
  /\ visit[v] = NoVisit
  /\ \E i \in made : Turns(v, [NoVisit EXCEPT !.step = "find", !.id = i])

DeleteEnvironment(v) ==
  /\ visit[v] = NoVisit
  /\ \E i \in made : Turns(v, [NoVisit EXCEPT !.step = "delete", !.id = i])

(* Statements.                                                              *)

FindsTemplate(v) ==
  /\ visit[v].step = "template"
  /\ IsTemplate(visit[v].id)
  /\ \E wish \in Wishes :
       Turns(v, [NoVisit EXCEPT !.step = "insert",
                                !.row = PatchedEnvironment(FromTemplate(visit[v].id), wish)])

FindsEnvironment(v) ==
  /\ visit[v].step = "find"
  /\ Stands(visit[v].id)
  /\ \E wish \in Wishes :
       Turns(v, [visit[v] EXCEPT !.step = "save", !.wish = wish,
                                 !.row = environments[visit[v].id]])

Changes(i, row, r) == r.step = "save" /\ r.id = i /\ row # environments[i]

\* A row is written or removed; who has read it before has read another one.
Keeps(v, i, row) ==
  /\ environments' = [environments EXCEPT ![i] = row]
  /\ visit' = [w \in Visit |->
                 IF w = v THEN NoVisit
                 ELSE [visit[w] EXCEPT !.late = @ \/ Changes(i, row, visit[w])]]

\* The reference is checked by the table.
Refers(row) == row.from # NoEnv => Stands(row.from)

InsertsEnvironment(v) ==
  /\ visit[v].step = "insert"
  /\ Refers(visit[v].row)
  /\ \E i \in Env \ made :
       /\ made' = made \cup {i}
       /\ Keeps(v, i, visit[v].row)

\* Inserted again if the row is gone.
SavesEnvironment(v) ==
  /\ visit[v].step = "save"
  /\ Refers(visit[v].row)
  /\ Keeps(v, visit[v].id, PatchedEnvironment(visit[v].row, visit[v].wish))
  /\ UNCHANGED made

RemovesEnvironment(v) ==
  /\ visit[v].step = "delete"
  /\ Stands(visit[v].id)
  /\ \A j \in Env : environments[j].from # visit[v].id
  /\ Keeps(v, visit[v].id, Nowhere)
  /\ UNCHANGED made

\* A row that is not there or not a template, a reference the table refuses, an
\* error of the database, or a client that hangs up.
VisitEnds(v) == visit[v].step # "idle" /\ Turns(v, NoVisit)

EnvironmentStep(v) ==
  \/ FindsTemplate(v) \/ FindsEnvironment(v) \/ InsertsEnvironment(v)
  \/ SavesEnvironment(v) \/ RemovesEnvironment(v) \/ VisitEnds(v)

-----------------------------------------------------------------------------
\* A step by which an update changes the parts it names and no other, unless the
\* row was written between its read and its write.
UpdatesKeepParts ==
  \A v \in Visit :
    visit[v].step = "save" /\ ~visit[v].late /\ visit'[v].step = "idle" =>
      \A p \in Part \ DOMAIN visit[v].wish :
        environments'[visit[v].id].parts[p] = environments[visit[v].id].parts[p]

\* A step that marks no environment, and moves none to another template.
OriginsStay ==
  \A i \in Env : Stands(i) /\ Stands(i)' =>
    /\ environments'[i].template = environments[i].template
    /\ environments'[i].from = environments[i].from

\* What an environment was made from is there, and a template.
CopiesHaveTemplates ==
  \A i \in Env : environments[i].from # NoEnv => IsTemplate(environments[i].from)
=============================================================================
