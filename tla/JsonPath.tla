------------------------------ MODULE JsonPath ------------------------------
(***************************************************************************)
(* resolveJsonPath: how a path such as  sensors[1].a\.b  is read, one turn *)
(* of its loops per step, and what the document is asked for on the way.   *)
(*                                                                         *)
(* A path is a sequence of characters; positions count from 1, and "end"   *)
(* of a part is the position after it, as in the code. The document is the *)
(* environment: it has what it is asked for or not.                        *)
(***************************************************************************)
EXTENDS Integers, SequencesExt

CONSTANTS
  Paths,      \* the paths that can be given
  Written,    \* addresses that somebody writes down as a path, see Format
  MaxIndex    \* bound of an index: what a SizeType can hold

ASSUME PathAssumption == Paths \subseteq Seq(STRING) /\ MaxIndex \in Nat

DigitValue(c) ==
  CASE c = "0" -> 0 [] c = "1" -> 1 [] c = "2" -> 2 [] c = "3" -> 3 [] c = "4" -> 4
    [] c = "5" -> 5 [] c = "6" -> 6 [] c = "7" -> 7 [] c = "8" -> 8 [] OTHER -> 9
Digits == {"0", "1", "2", "3", "4", "5", "6", "7", "8", "9"}
Escapable == {".", "[", "\\"}

VARIABLES
  dotPath,
  meant,       \* history: the address the path was written for, <<>> for none
  phase,       \* "read": readSegment and findMember, "index": applyIndexes, "done"
  start, pos, chainStart,  \* chainStart is 0 for noChain
  nameHasEscapes,
  asked,       \* the names and indexes the document was asked for
  cur          \* is there a node

vars == <<dotPath, meant, phase, start, pos, chainStart, nameHasEscapes, asked, cur>>
pathEnd == Len(dotPath) + 1
nameEnd == IF chainStart # 0 THEN chainStart ELSE pos

-----------------------------------------------------------------------------
\* The bug of not letting the backslash be escaped.
isEscapeSequenceNotItself(path, at, end) ==
  at + 1 < end /\ path[at] = "\\" /\ path[at + 1] \in Escapable \ {"\\"}

isEscapeSequence(path, at, end) ==
  at + 1 < end /\ path[at] = "\\" /\ path[at + 1] \in Escapable

Number(digits) == FoldLeft(LAMBDA n, c : 10 * n + DigitValue(c), 0, digits)

\* Where "[<index>]" that starts at "at" may close: one place at most.
Closings(path, at, end) ==
  {k \in at + 2..end - 1 :
     /\ path[at] = "[" /\ path[k] = "]"
     /\ \A j \in at + 1..k - 1 : path[j] \in Digits
     /\ Number(SubSeq(path, at + 1, k - 1)) <= MaxIndex}

IndexAt(path, at, end) == Closings(path, at, end) # {}
parseIndex(path, at, end) ==
  LET k == CHOOSE c \in Closings(path, at, end) : TRUE
  IN [index |-> Number(SubSeq(path, at + 1, k - 1)), after |-> k + 1]

\* What is left of [from, to) without the escaping backslashes.
unescape(path, from, to) ==
  LET out[at \in from..to] ==
        IF at = to THEN <<>>
        ELSE IF isEscapeSequence(path, at, to) THEN <<path[at + 1]>> \o out[at + 2]
        ELSE <<path[at]>> \o out[at + 1]
  IN out[from]

-----------------------------------------------------------------------------
\* The documented way to write an address down: a dot, an opening bracket and a
\* backslash in a name get a backslash before them, an index stands in brackets.
Escape(name) ==
  FlattenSeq([i \in DOMAIN name |->
    IF name[i] \in Escapable THEN <<"\\", name[i]>> ELSE <<name[i]>>])

Bracketed(index) == <<"[">> \o index \o <<"]">>

Format(address) ==
  FlattenSeq([i \in DOMAIN address |->
    (IF i = 1 THEN <<>> ELSE <<".">>) \o Escape(address[i].name)
      \o FlattenSeq([k \in DOMAIN address[i].indexes |-> Bracketed(address[i].indexes[k])])])

ASSUME WrittenAssumption == \A address \in Written : Format(address) \in Seq(STRING)

Init ==
  /\ \/ dotPath \in Paths /\ meant = <<>>
     \/ meant \in Written /\ dotPath = Format(meant)
  /\ phase = IF dotPath = <<>> THEN "done" ELSE "read"
  /\ start = 1 /\ pos = 1 /\ chainStart = 0 /\ nameHasEscapes = FALSE
  /\ asked = <<>>
  /\ cur = TRUE

Reading == phase = "read" /\ pos < pathEnd /\ dotPath[pos] # "."

ReadEscape ==
  /\ Reading /\ isEscapeSequence(dotPath, pos, pathEnd)
  /\ nameHasEscapes' = TRUE
  /\ chainStart' = 0
  /\ pos' = pos + 2
  /\ UNCHANGED <<dotPath, meant, phase, start, asked, cur>>

ReadIndex ==
  /\ Reading /\ ~isEscapeSequence(dotPath, pos, pathEnd)
  /\ IndexAt(dotPath, pos, pathEnd)
  /\ chainStart' = IF chainStart = 0 THEN pos ELSE chainStart
  /\ pos' = parseIndex(dotPath, pos, pathEnd).after
  /\ UNCHANGED <<dotPath, meant, phase, start, nameHasEscapes, asked, cur>>

\* The bug of not cancelling the chain: "a[0]b" would lose its "b".
ReadCharacterInChain ==
  /\ Reading /\ ~isEscapeSequence(dotPath, pos, pathEnd)
  /\ ~IndexAt(dotPath, pos, pathEnd)
  /\ pos' = pos + 1
  /\ UNCHANGED <<dotPath, meant, phase, start, chainStart, nameHasEscapes, asked, cur>>

\* An ordinary character cancels the chain before it.
ReadCharacter ==
  /\ Reading /\ ~isEscapeSequence(dotPath, pos, pathEnd)
  /\ ~IndexAt(dotPath, pos, pathEnd)
  /\ chainStart' = 0
  /\ pos' = pos + 1
  /\ UNCHANGED <<dotPath, meant, phase, start, nameHasEscapes, asked, cur>>

\* readSegment returns, findMember is asked for the name. nameEnd stays what it is
\* while the indexes are applied: the chain is walked with pos.
FindMember(found) ==
  /\ phase = "read" /\ ~Reading
  /\ asked' = Append(asked, [name |-> IF nameHasEscapes
                                      THEN unescape(dotPath, start, nameEnd)
                                      ELSE SubSeq(dotPath, start, nameEnd - 1),
                             indexes |-> <<>>])
  /\ cur' = found
  /\ phase' = IF found THEN "index" ELSE "done"
  /\ start' = pos
  /\ pos' = nameEnd
  /\ UNCHANGED <<dotPath, meant, chainStart, nameHasEscapes>>

\* applyIndexes, one index; "start" is the end of the segment now.
ApplyIndex(found) ==
  /\ phase = "index" /\ pos < start
  /\ IF IndexAt(dotPath, pos, start)
     THEN LET group == parseIndex(dotPath, pos, start) IN
          /\ asked' = [asked EXCEPT ![Len(asked)].indexes = Append(@, group.index)]
          /\ pos' = group.after
          /\ cur' = found
     ELSE cur' = FALSE /\ UNCHANGED <<asked, pos>>
  /\ phase' = IF cur' THEN "index" ELSE "done"
  /\ UNCHANGED <<dotPath, meant, start, chainStart, nameHasEscapes>>

\* The bug of stepping over the separator twice.
NextSegmentTooFar ==
  /\ phase = "index" /\ pos >= start
  /\ start' = start + 2 /\ pos' = start + 2
  /\ chainStart' = 0 /\ nameHasEscapes' = FALSE
  /\ phase' = IF start + 2 < pathEnd THEN "read" ELSE "done"
  /\ UNCHANGED <<dotPath, meant, asked, cur>>

NextSegment ==
  /\ phase = "index" /\ pos >= start
  /\ start' = start + 1 /\ pos' = start + 1
  /\ chainStart' = 0 /\ nameHasEscapes' = FALSE
  /\ phase' = IF start + 1 < pathEnd THEN "read" ELSE "done"
  /\ UNCHANGED <<dotPath, meant, asked, cur>>

Next ==
  \/ ReadEscape \/ ReadIndex \/ ReadCharacter
  \/ \E found \in BOOLEAN : FindMember(found) \/ ApplyIndex(found)
  \/ NextSegment

Done == phase = "done" /\ UNCHANGED vars

Spec == Init /\ [][Next \/ Done]_vars /\ WF_vars(Next)

-----------------------------------------------------------------------------
(***************************************************************************)
(* The reference: what a path means, without reading it left to right.     *)
(***************************************************************************)

\* Positions whose character is escaped.
Escaped(path) ==
  LET escaped[i \in 0..Len(path)] ==
        /\ i > 1 /\ ~escaped[i - 1]
        /\ path[i] \in Escapable /\ path[i - 1] = "\\"
  IN {i \in DOMAIN path : escaped[i]}

\* The members of S in 1..n, in their order.
InOrder(S, n) ==
  LET upTo[i \in 0..n] ==
        IF i = 0 THEN <<>>
        ELSE IF i \in S THEN Append(upTo[i - 1], i) ELSE upTo[i - 1]
  IN upTo[n]

\* Where segments end: at the separators and at the end, if anything is left.
Ends(path) ==
  {i \in DOMAIN path : path[i] = "." /\ i \notin Escaped(path)}
    \cup (IF path # <<>> /\ ~(Last(path) = "." /\ Len(path) \notin Escaped(path))
          THEN {Len(path) + 1} ELSE {})

\* [from, to) is a chain of indexes: it can be cut into groups.
IsChain(path, from, to) ==
  \E cuts \in SUBSET (from..to) :
    /\ {from, to} \subseteq cuts
    /\ \A c \in cuts \ {to} :
         \E d \in cuts : /\ d > c /\ \A e \in cuts : ~(c < e /\ e < d)
                         /\ d - 1 \in Closings(path, c, d)

\* Where the longest chain begins that is the tail of [from, to).
ChainOf(path, from, to) ==
  CHOOSE k \in from..to :
    /\ IsChain(path, k, to) /\ k \notin Escaped(path)
    /\ \A j \in from..k - 1 : ~IsChain(path, j, to) \/ j \in Escaped(path)

Characters(path, from, to) ==
  LET kept == InOrder({i \in from..to - 1 : i + 1 \notin Escaped(path)}, to - 1)
  IN [i \in DOMAIN kept |-> path[kept[i]]]

Opens(path, from, to) == {i \in from..to - 1 : path[i] = "["}
Indexes(path, from, to) ==
  LET groups == InOrder(Opens(path, from, to), to - 1)
  IN [i \in DOMAIN groups |-> parseIndex(path, groups[i], to).index]

Meaning(path, from, to) ==
  LET chain == ChainOf(path, from, to)
  IN [name |-> Characters(path, from, chain), indexes |-> Indexes(path, chain, to)]

Segments(path) ==
  LET ends == InOrder(Ends(path), Len(path) + 1)
  IN [i \in DOMAIN ends |->
       Meaning(path, IF i = 1 THEN 1 ELSE ends[i - 1] + 1, ends[i])]

\* Every path asks the document exactly for what it means, segment by segment:
\* escapes, chains and brackets that are no index included (readSegment, unescape).
AsksForItsMeaning ==
  phase = "done" => IF cur THEN asked = Segments(dotPath)
                    ELSE \E i \in DOMAIN asked :
                           /\ i = Len(asked)
                           /\ Front(asked) = SubSeq(Segments(dotPath), 1, i - 1)
                           /\ asked[i].name = Segments(dotPath)[i].name
                           /\ IsPrefix(asked[i].indexes, Segments(dotPath)[i].indexes)

\* Reading ends on every path, and an address that was written with the
\* documented escapes has then been read back as it was meant, or the document has
\* not got it, whatever characters its names have.
Numbers(indexes) == [i \in DOMAIN indexes |-> Number(indexes[i])]
ReadsBackWhatWasMeant ==
  <>(/\ phase = "done"
     /\ cur /\ meant # <<>> =>
          asked = [i \in DOMAIN meant |->
                    [name |-> meant[i].name, indexes |-> Numbers(meant[i].indexes)]])

\* The code never reads outside the path: positions stay within it (one past its
\* end as an end), and a chain lies inside its segment.
WithinPath ==
  /\ start \in 1..pathEnd + 1 /\ pos \in 1..pathEnd + 1
  /\ phase = "read" => start <= pos /\ pos <= pathEnd
  /\ chainStart # 0 => chainStart <= pos
  /\ phase = "index" => pos <= start /\ start <= pathEnd
=============================================================================
