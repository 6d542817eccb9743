-------------------------- MODULE PollDefinitions --------------------------
(***************************************************************************)
(* Poll definitions: Validate and Create, the constraints of the tables,   *)
(* and the reads that put a poll together again from joined rows (get,     *)
(* ListRecent).  Ids are numbers in the order of UUIDs, texts are their    *)
(* lengths, and times are counted in halves of a microsecond: PostgreSQL   *)
(* keeps whole microseconds.                                               *)
(***************************************************************************)
EXTENDS Integers, Sequences, FiniteSets, SequencesExt

CONSTANTS
  Ids,       \* poll ids that may be drawn
  SlugOf,    \* the slug made from an id's first characters
  Inputs,    \* what a client may send
  MaxOptions,  \* 20
  MaxClock,  \* bound on the clock of created_at
  MaxFaults  \* bound on failures of the database

DefinitionAssumption ==
  /\ Ids \subseteq Nat /\ Ids \subseteq DOMAIN SlugOf /\ {MaxOptions, MaxClock, MaxFaults} \subseteq Nat
  /\ \A in \in Inputs : in.options \in Seq(Nat) /\ {in.question, in.max, in.starts, in.ends} \subseteq Nat

VARIABLES
  clock,
  polls,   \* rows of polls
  rows,    \* rows of poll_options
  sent,    \* history: what each stored poll was created from
  answer,  \* to the last create: its code, and whether a fault was behind it
  faults

vars == <<clock, polls, rows, sent, answer, faults>>

\* What the code and the tables accept, in characters.
QuestionLengths == 1..500
OptionLengths == 1..200

Codes == {"none", "created", "invalid_request", "unavailable"}

DefinitionsTypeOK ==
  /\ clock \in 0..MaxClock /\ DOMAIN polls \subseteq Ids /\ DOMAIN sent = DOMAIN polls
  /\ \A p \in DOMAIN polls :
       polls[p] \in [slug: {SlugOf[i] : i \in Ids}, question: QuestionLengths,
                     type: {"single_choice", "multiple_choice"}, max: 1..MaxOptions, starts: Nat, ends: Nat, created: 0..MaxClock]
  /\ rows \subseteq [poll: DOMAIN polls, text: OptionLengths, position: 0..MaxOptions - 1]
  /\ answer \in [code: Codes, faulty: BOOLEAN] /\ faults \in 0..MaxFaults

Init ==
  /\ clock = 0 /\ polls = [p \in {} |-> 0] /\ rows = {} /\ sent = [p \in {} |-> 0]
  /\ answer = [code |-> "none", faulty |-> FALSE] /\ faults = 0

-----------------------------------------------------------------------------
\* CreatePoll.Validate, after the texts were trimmed.
Validate(in) ==
  /\ in.question \in QuestionLengths
  /\ in.starts < in.ends
  /\ Len(in.options) \in 2..MaxOptions
  /\ \A i \in 1..Len(in.options) : in.options[i] \in OptionLengths
  /\ \/ in.type = "single_choice" /\ in.max = 1
     \/ in.type = "multiple_choice" /\ in.max \in 2..Len(in.options)

\* A timestamptz has whole microseconds.
Stored(t) == t \div 2

Row(p, in) ==
  [slug |-> SlugOf[p], question |-> in.question, type |-> in.type, max |-> in.max,
   starts |-> Stored(in.starts), ends |-> Stored(in.ends), created |-> clock]

OptionRows(p, in) ==
  {[poll |-> p, text |-> in.options[i], position |-> i - 1] : i \in 1..Len(in.options)}

\* The CHECK and UNIQUE constraints of 001_init.sql.
Constraints(row, options) ==
  /\ row.question \in QuestionLengths /\ row.max \in 1..MaxOptions /\ row.starts < row.ends
  /\ \A p \in DOMAIN polls : polls[p].slug # row.slug
  /\ \A o \in options : o.text \in OptionLengths /\ o.position >= 0
  /\ \A o1, o2 \in options : o1.position = o2.position => o1 = o2

Keep(p, row, options, in) ==
  /\ polls' = [q \in DOMAIN polls \cup {p} |-> IF q = p THEN row ELSE polls[q]]
  /\ rows' = rows \cup options
  /\ sent' = [q \in DOMAIN polls \cup {p} |-> IF q = p THEN in ELSE sent[q]]

Says(code, faulty) == answer' = [code |-> code, faulty |-> faulty]

CreateInvalid(in) ==
  /\ ~Validate(in) /\ Says("invalid_request", FALSE)
  /\ UNCHANGED <<clock, polls, rows, sent, faults>>

\* One transaction; a violated constraint rolls it back and is answered like
\* a database that is down.
Create(in) ==
  \E p \in Ids \ DOMAIN polls :
    LET row == Row(p, in)  options == OptionRows(p, in) IN
    /\ Validate(in)
    /\ IF Constraints(row, options)
       THEN Keep(p, row, options, in) /\ Says("created", FALSE)
       ELSE Says("unavailable", FALSE) /\ UNCHANGED <<polls, rows, sent>>
    /\ UNCHANGED <<clock, faults>>

\* Mutant: the rows are inserted without a transaction.
CreateFaultTorn(in) ==
  /\ Validate(in) /\ faults < MaxFaults /\ faults' = faults + 1 /\ Says("unavailable", TRUE)
  /\ \E p \in Ids \ DOMAIN polls : Keep(p, Row(p, in), {o \in OptionRows(p, in) : o.position = 0}, in)
  /\ UNCHANGED clock

\* The database fails: nothing is stored, or everything and the reply to the
\* COMMIT is lost.
CreateFault(in) ==
  /\ Validate(in) /\ faults < MaxFaults /\ faults' = faults + 1 /\ Says("unavailable", TRUE)
  /\ \/ UNCHANGED <<polls, rows, sent>>
     \/ \E p \in Ids \ DOMAIN polls :
          /\ Constraints(Row(p, in), OptionRows(p, in))
          /\ Keep(p, Row(p, in), OptionRows(p, in), in)
  /\ UNCHANGED clock

Tick ==
  /\ clock < MaxClock /\ clock' = clock + 1
  /\ UNCHANGED <<polls, rows, sent, answer, faults>>

Next == Tick \/ \E in \in Inputs : CreateInvalid(in) \/ Create(in) \/ CreateFault(in)

Spec == Init /\ [][Next]_vars

-----------------------------------------------------------------------------
(* The reads.                                                              *)

\* A set of rows in an order: each at the place its predecessors leave it.
Sorted(S, Before(_, _)) ==
  [i \in 1..Cardinality(S) |-> CHOOSE x \in S : Cardinality({y \in S : Before(y, x)}) = i - 1]

\* ORDER BY created_at DESC, id DESC.
Newer(p, q) ==
  polls[p].created > polls[q].created \/ (polls[p].created = polls[q].created /\ p > q)

RowBefore(a, b) == Newer(a.poll, b.poll) \/ (a.poll = b.poll /\ a.position < b.position)

\* A row goes to the last poll of the answer, or starts a new one.
AddRow(list, row) ==
  IF list = <<>> \/ Last(list).id # row.poll
  THEN Append(list, [id |-> row.poll, options |-> <<row.text>>])
  ELSE [list EXCEPT ![Len(list)].options = Append(@, row.text)]

ListRecent(limit) ==
  LET recent == {p \in DOMAIN polls : Cardinality({q \in DOMAIN polls : Newer(q, p)}) < limit}
  IN  FoldLeft(AddRow, <<>>, Sorted({r \in rows : r.poll \in recent}, RowBefore))

\* The rows of one poll in the order of their positions.
Get(p) ==
  LET own == Sorted({r \in rows : r.poll = p}, LAMBDA a, b : a.position < b.position)
  IN  [i \in 1..Len(own) |-> own[i].text]

\* ValidateSelection; an option's id is its position here.
ValidateSelection(p, ids) ==
  /\ ids # <<>> /\ Len(ids) <= polls[p].max
  /\ polls[p].type = "single_choice" => Len(ids) = 1
  /\ \A i \in 1..Len(ids) :
       /\ \A j \in 1..i - 1 : ids[j] # ids[i]
       /\ ids[i] \in 0..Len(Get(p)) - 1

-----------------------------------------------------------------------------
Domain(Options, MaxChoices) == INSTANCE PollDomain

\* Every stored poll can be voted on as the rest of the system assumes, with
\* the options that were sent, in their order: also after a failed create.
PollsAreWhole ==
  \A p \in DOMAIN polls :
    /\ Get(p) = sent[p].options
    /\ Len(Get(p)) >= 2 /\ polls[p].max \in 1..Len(Get(p))
    /\ polls[p].type = "single_choice" <=> polls[p].max = 1

\* The list is the newest polls, each once and with all its options, however
\* many were created in the same microsecond.
ListIsWhole ==
  \A limit \in 1..Cardinality(DOMAIN polls) + 1 :
    LET list == ListRecent(limit) IN
    /\ Len(list) = IF Cardinality(DOMAIN polls) < limit THEN Cardinality(DOMAIN polls) ELSE limit
    /\ \A i \in 1..Len(list) :
         /\ list[i].options = sent[list[i].id].options
         /\ \A p \in DOMAIN polls \ {list[j].id : j \in 1..i} : Newer(list[i].id, p)

\* A selection that passes is one of PollDomain's, each option listed once:
\* the script that counts it increments no counter twice.
SelectionsCountOnce ==
  \A p \in DOMAIN polls :
    LET n == Len(Get(p)) IN
    \A ids \in UNION {[1..k -> 0..MaxOptions] : k \in 0..MaxOptions} :
      ValidateSelection(p, ids) <=>
        /\ ToSet(ids) \in Domain(0..n - 1, polls[p].max)!Selections
        /\ Cardinality(ToSet(ids)) = Len(ids)

\* What is stored, what is listed and what can be selected are the polls that
\* were created, whatever failed.
DefinitionsAreSound == PollsAreWhole /\ ListIsWhole /\ SelectionsCountOnce

-----------------------------------------------------------------------------
(* What the documentation says and microseconds break.                     *)

\* "unavailable" is answered only when something was.
UnavailableIsAFault == answer.code = "unavailable" => answer.faulty
=============================================================================
