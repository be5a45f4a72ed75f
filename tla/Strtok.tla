------------------------------- MODULE Strtok -------------------------------
(* parse_path of vfs.c and strtok of string.c, one memory access at a time.  *)
(* strtok keeps its place in a static variable, so the 'f' key, whose        *)
(* handler splits a path of its own, may move it between any two accesses of *)
(* the main thread.  Characters are a slash, a letter or the final NUL.      *)
EXTENDS Integers, Sequences, FiniteSets

CONSTANTS Paths,         \* the paths given to parse_path
          Slash, Letter, NUL,
          MAX_COMPONENTS \* 16

ASSUME PathAssumption == /\ Slash # Letter /\ Slash # NUL /\ Letter # NUL
                         /\ Paths \subseteq Seq({Slash, Letter})
                         /\ MAX_COMPONENTS \in Nat \ {0}

VARIABLES last,   \* static: a place in buffer, HandlersEnd or Stray; between parses, when it
                  \* is not read, HandlersEnd
          buffer, \* parse_path's copy of the path
          at,     \* where strtok stands, "out" when no parse is under way
          reg,    \* the register between the load and the store of last++
          token_start,
          cut,    \* where strtok ended the token, 0 if it has not
          components,
          moved   \* whether the handler has moved last since the parse began

svars == <<last, buffer, at, reg, token_start, cut, components, moved>>

HandlersEnd == 0  \* the NUL at the end of the handler's last path
Stray == -1       \* further on, or before the end of a path of too many components
Places == 1..(Len(buffer) + 1)

\* A component: from where to where in the buffer; Foreign is one that is not of buffer.
Foreign == [from |-> Stray, to |-> Stray]
Controls == {"out", "skip", "skip_delim", "skip_load", "skip_store", "skipped", "start",
             "scan", "scan_delim", "scan_load", "scan_store", "scanned", "cut",
             "cut_load", "cut_store", "return", "done"}

STypeOK == /\ last \in Places \cup {HandlersEnd, Stray}
           /\ buffer \in Seq({Slash, Letter})
           /\ at \in Controls
           /\ {reg, token_start} \subseteq Places \cup {HandlersEnd, Stray}
           /\ cut \in Places \cup {HandlersEnd}
           /\ components \in Seq([from : Places \cup {Stray}, to : Places \cup {Stray}])
           /\ Len(components) <= MAX_COMPONENTS
           /\ moved \in BOOLEAN

SInit == /\ last = HandlersEnd /\ buffer = <<>> /\ at = "out"
         /\ reg = HandlersEnd /\ token_start = HandlersEnd /\ cut = 0
         /\ components = <<>> /\ moved = FALSE

\* What *place may be: what lies beyond the handler's path is not known.
Reads(place) == IF place \in 1..Len(buffer) THEN {buffer[place]}
                ELSE IF place = Stray THEN {Slash, Letter, NUL} ELSE {NUL}
After(place) == IF place \in Places THEN place + 1 ELSE Stray

\* string.c's strchr finds the NUL of the delimiters too.
IsDelim(c) == c # Letter

Goto(control) == at' = control
Rest(path) == LET first == {i \in DOMAIN path : /\ path[i] # Slash
                                                /\ \A j \in 1..(i - 1) : path[j] = Slash}
              IN  IF first = {} THEN <<>>
                  ELSE SubSeq(path, CHOOSE i \in first : TRUE, Len(path))

\* parse_path passes the slashes in front by a pointer of its own, and is done with
\* the root; else strtok starts on a copy.
ParsePath(path) ==
  /\ at = "out"
  /\ buffer' = Rest(path)
  /\ IF Rest(path) = <<>> THEN UNCHANGED last /\ Goto("done") ELSE last' = 1 /\ Goto("skip")
  /\ UNCHANGED <<reg, token_start, cut, components, moved>>

\* Each condition of strtok's loops reads last afresh.
Test(control, Holds(_), yes, no) ==
  /\ at = control
  /\ \E c \in Reads(last) : Goto(IF Holds(c) THEN yes ELSE no)
  /\ UNCHANGED <<last, buffer, reg, token_start, cut, components, moved>>

\* last++ is a load and a store.
Load(control, next) ==
  /\ at = control
  /\ reg' = last /\ Goto(next)
  /\ UNCHANGED <<last, buffer, token_start, cut, components, moved>>
Store(control, next) ==
  /\ at = control
  /\ last' = After(reg) /\ reg' = HandlersEnd /\ Goto(next)
  /\ UNCHANGED <<buffer, token_start, cut, components, moved>>

IsNUL(c) == c = NUL
NotNUL(c) == c # NUL

\* Slip: the slashes before a component are not skipped.
SkipNot == Test("skip", IsNUL, "skipped", "skipped")

Skip == \/ Test("skip", IsNUL, "skipped", "skip_delim")
        \/ Test("skip_delim", IsDelim, "skip_load", "skipped")
        \/ Load("skip_load", "skip_store")
        \/ Store("skip_store", "skip")

\* NULL ends the parse.
Skipped == Test("skipped", NotNUL, "start", "done")

TokenStart ==
  /\ at = "start"
  /\ token_start' = last /\ cut' = 0 /\ Goto("scan")
  /\ UNCHANGED <<last, buffer, reg, components, moved>>

Scan == \/ Test("scan", IsNUL, "scanned", "scan_delim")
        \/ Test("scan_delim", IsDelim, "scanned", "scan_load")
        \/ Load("scan_load", "scan_store")
        \/ Store("scan_store", "scan")

Scanned == Test("scanned", NotNUL, "cut", "return")

\* The character after the token becomes its NUL.
Cut ==
  /\ at = "cut"
  /\ cut' = IF last \in Places THEN last ELSE 0
  /\ Goto("cut_load")
  /\ UNCHANGED <<last, buffer, reg, token_start, components, moved>>

\* Slip: the last component is taken one time too many.
ReturnOneMore ==
  /\ at = "return"
  /\ components' = Append(components,
       IF token_start \in Places
       THEN [from |-> token_start, to |-> IF cut = 0 THEN Len(buffer) + 1 ELSE cut]
       ELSE Foreign)
  /\ token_start' = HandlersEnd /\ cut' = 0
  /\ Goto(IF Len(components) > MAX_COMPONENTS THEN "done" ELSE "skip")
  /\ UNCHANGED <<last, buffer, reg, moved>>

\* parse_path copies the token, up to its NUL, and calls strtok again; the token after
\* the last one is looked for and not used.
Return ==
  /\ at = "return"
  /\ IF Len(components) = MAX_COMPONENTS THEN Goto("done") /\ UNCHANGED components
     ELSE /\ components' = Append(components,
               IF token_start \in Places
               THEN [from |-> token_start, to |-> IF cut = 0 THEN Len(buffer) + 1 ELSE cut]
               ELSE Foreign)
          /\ Goto("skip")
  /\ token_start' = HandlersEnd /\ cut' = 0
  /\ UNCHANGED <<last, buffer, reg, moved>>

\* parse_path returns, and its frame ends.
ParseDone ==
  /\ at = "done"
  /\ Goto("out") /\ last' = HandlersEnd /\ buffer' = <<>> /\ components' = <<>>
  /\ moved' = FALSE
  /\ UNCHANGED <<reg, token_start, cut>>

StrtokStep == \/ Skip \/ Skipped \/ TokenStart \/ Scan \/ Scanned
              \/ Cut \/ Load("cut_load", "cut_store") \/ Store("cut_store", "return")
              \/ Return

\* 'f' splits a path of its own from one end to the other.  It is done with it before the
\* last component if there are too many, and leaves last alone if there is none.
HandlerParse ==
  /\ last' \in IF at = "out" THEN {last} ELSE {last, HandlersEnd, Stray}
  /\ moved' = (moved \/ last' # last)
  /\ UNCHANGED <<buffer, at, reg, token_start, cut, components>>
-----------------------------------------------------------------------------
Starts == {k \in DOMAIN buffer : buffer[k] # Slash /\ (k > 1 => buffer[k - 1] = Slash)}
Ends == {k \in 2..(Len(buffer) + 1) :
           buffer[k - 1] # Slash /\ (k <= Len(buffer) => buffer[k] = Slash)}

\* The n-th component, counted from 1, starts after n-1 others have.
StartOf(n) == CHOOSE k \in Starts : Cardinality({j \in Starts : j < k}) = n - 1
EndOf(n) == CHOOSE k \in Ends : Cardinality({j \in Ends : j < k}) = n - 1

\* Wherever 'f' comes in between, parse_path hands out the path's components one after the
\* other, none skipped and none twice.  One may run on to the end of the path, if strtok did
\* not come to end it, and after it come only such as are not of the path.  Undisturbed,
\* it hands out all of them, up to MAX_COMPONENTS, each to its end
\* (string.c:30-54, vfs.c:390-397).
ComponentsInOrder ==
  /\ \A n \in DOMAIN components :
       components[n] # Foreign =>
         /\ n <= Cardinality(Starts) /\ components[n].from = StartOf(n)
         /\ \/ components[n].to = EndOf(n)
            \/ /\ components[n].to = Len(buffer) + 1
               /\ \A m \in DOMAIN components : m > n => components[m] = Foreign
  /\ at = "done" /\ ~moved =>
       /\ Len(components) = IF Cardinality(Starts) <= MAX_COMPONENTS
                            THEN Cardinality(Starts) ELSE MAX_COMPONENTS
       /\ \A n \in DOMAIN components : components[n] = [from |-> StartOf(n), to |-> EndOf(n)]
=============================================================================
