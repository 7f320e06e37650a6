----------------------------- MODULE SegmentGlob -----------------------------
(***************************************************************************)
(* SegmentGlob, the compiled wildcard pattern of one segment of a SPIFFE   *)
(* path: new() cuts the pattern into literals and picks a kind, matches()  *)
(* takes a short cut for every kind but Multi, which it matches greedily   *)
(* between its anchors.  It is run on every pattern and value up to a      *)
(* length and compared with what a wildcard means.                         *)
(***************************************************************************)
EXTENDS Integers, Sequences, FiniteSetsExt

CONSTANTS
  Letters,     \* the characters of a segment other than the wildcard
  Star,        \* the wildcard
  MaxPattern,  \* bound: the length of a pattern
  MaxValue     \* bound: the length of a value

ASSUME GlobAssumption ==
  /\ Star \notin Letters
  /\ MaxPattern \in Nat
  /\ MaxValue \in Nat

\* A value is the segment of an identity, and may hold a * of its own.
Chars == Letters \cup {Star}

Words(S, n) == UNION {[1..k -> S] : k \in 0..n}

VARIABLES
  pattern, value,
  pc,
  start,           \* where the literal being scanned starts
  kind,            \* SegmentGlobKind
  parts,           \* the literals, as half-open index ranges of the pattern
  lo, hi,          \* search_start and search_end
  i,               \* the next literal to find
  last,            \* the end of the literals to find
  result

vars == <<pattern, value, pc, start, kind, parts, lo, hi, i, last, result>>

Kinds == {"none", "Any", "Exact", "Prefix", "Suffix", "Contains", "PrefixSuffix", "Multi"}

TypeOK ==
  /\ pattern \in Words(Chars, MaxPattern)
  /\ value \in Words(Chars, MaxValue)
  /\ pc \in {"new", "split", "matches", "multi", "done"}
  /\ start \in 0..MaxPattern
  /\ kind \in Kinds
  /\ parts \in Seq((0..MaxPattern) \X (0..MaxPattern))
  /\ lo \in 0..MaxValue
  /\ hi \in 0..MaxValue
  /\ i \in 0..MaxPattern
  /\ last \in 0..MaxPattern
  /\ result \in BOOLEAN

Init ==
  /\ pattern \in Words(Chars, MaxPattern)
  /\ value \in Words(Chars, MaxValue)
  /\ pc = "new"
  /\ start = 0
  /\ kind = "none"
  /\ parts = <<>>
  /\ lo = 0 /\ hi = 0 /\ i = 0 /\ last = 0
  /\ result = FALSE

-----------------------------------------------------------------------------
\* SegmentGlob::new

\* The wildcards of a pattern, as positions from 1.
Stars(p) == {j \in 1..Len(p) : p[j] = Star}

\* The wildcards the scan has yet to reach.
StarsLeft == {s \in Stars(pattern) : s > start}

\* The literals once the one that starts at start ends at an index: none is empty.
PartsUpTo(end) == IF start # end THEN Append(parts, <<start, end>>) ELSE parts

AnchoredStart == pattern # <<>> /\ Head(pattern) # Star
AnchoredEnd == pattern # <<>> /\ pattern[Len(pattern)] # Star

\* The kind of a pattern with a wildcard.
KindOf(lits) ==
  CASE Len(lits) = 0 -> "Any"
    [] Len(lits) = 1 ->
         IF AnchoredStart THEN "Prefix" ELSE IF AnchoredEnd THEN "Suffix" ELSE "Contains"
    [] Len(lits) = 2 /\ AnchoredStart /\ AnchoredEnd -> "PrefixSuffix"
    [] OTHER -> "Multi"

New ==
  /\ pc = "new"
  /\ IF Stars(pattern) = {}
     THEN kind' = "Exact" /\ pc' = "matches"
     ELSE kind' = kind /\ pc' = "split"
  /\ UNCHANGED <<pattern, value, start, parts, lo, hi, i, last, result>>

\* The next wildcard ends a literal.
SplitAt ==
  /\ pc = "split"
  /\ StarsLeft # {}
  /\ parts' = PartsUpTo(Min(StarsLeft) - 1)
  /\ start' = Min(StarsLeft)
  /\ UNCHANGED <<pattern, value, pc, kind, lo, hi, i, last, result>>

\* The end of the pattern ends the last one.
EndSplit ==
  /\ pc = "split"
  /\ StarsLeft = {}
  /\ parts' = PartsUpTo(Len(pattern))
  /\ kind' = KindOf(parts')
  /\ pc' = "matches"
  /\ UNCHANGED <<pattern, value, start, lo, hi, i, last, result>>

-----------------------------------------------------------------------------
\* SegmentGlob::matches

\* The text of a literal.
Text(r) == SubSeq(pattern, r[1] + 1, r[2])

\* A literal lies in the value at an offset.
At(lit, k) == k + Len(lit) <= Len(value) /\ SubSeq(value, k + 1, k + Len(lit)) = lit

StartsWith(lit) == At(lit, 0)
EndsWith(lit) == Len(lit) <= Len(value) /\ At(lit, Len(value) - Len(lit))

\* Mutant: prefix and suffix may overlap in the value.
MatchesSimpleOverlap ==
  CASE kind = "Any" -> TRUE
    [] kind = "Exact" -> value = pattern
    [] kind = "Prefix" -> StartsWith(Text(parts[1]))
    [] kind = "Suffix" -> EndsWith(Text(parts[1]))
    [] kind = "Contains" -> \E k \in 0..Len(value) : At(Text(parts[1]), k)
    [] kind = "PrefixSuffix" -> StartsWith(Text(parts[1])) /\ EndsWith(Text(parts[2]))

\* The answer of every kind but Multi.
MatchesSimple ==
  CASE kind = "Any" -> TRUE
    [] kind = "Exact" -> value = pattern
    [] kind = "Prefix" -> StartsWith(Text(parts[1]))
    [] kind = "Suffix" -> EndsWith(Text(parts[1]))
    [] kind = "Contains" -> \E k \in 0..Len(value) : At(Text(parts[1]), k)
    [] kind = "PrefixSuffix" ->
         /\ Len(value) >= Len(Text(parts[1])) + Len(Text(parts[2]))
         /\ StartsWith(Text(parts[1]))
         /\ EndsWith(Text(parts[2]))

Return(answer) ==
  /\ pc' = "done"
  /\ result' = answer
  /\ UNCHANGED <<pattern, value, start, kind, parts>>

MatchKind ==
  /\ pc = "matches"
  /\ kind # "Multi"
  /\ Return(MatchesSimple)
  /\ UNCHANGED <<lo, hi, i, last>>

\* Mutant: the anchors may cross.
AnchorsCrossing ==
  /\ pc = "matches"
  /\ kind = "Multi"
  /\ LET prefix == IF AnchoredStart THEN Text(Head(parts)) ELSE <<>>
         suffix == IF AnchoredEnd THEN Text(parts[Len(parts)]) ELSE <<>>
     IN  /\ StartsWith(prefix) /\ EndsWith(suffix)
         /\ lo' = Len(prefix)
         /\ hi' = Len(value) - Len(suffix)
         /\ i' = IF AnchoredStart THEN 1 ELSE 0
         /\ last' = IF AnchoredEnd THEN Len(parts) - 1 ELSE Len(parts)
         /\ pc' = "multi"
         /\ UNCHANGED <<pattern, value, start, kind, parts, result>>

\* matches_multi: the anchored ends are taken off the value first.
Anchors ==
  /\ pc = "matches"
  /\ kind = "Multi"
  /\ LET prefix == IF AnchoredStart THEN Text(Head(parts)) ELSE <<>>
         suffix == IF AnchoredEnd THEN Text(parts[Len(parts)]) ELSE <<>>
     IN  IF /\ StartsWith(prefix) /\ EndsWith(suffix)
            /\ Len(prefix) <= Len(value) - Len(suffix)
         THEN /\ lo' = Len(prefix)
              /\ hi' = Len(value) - Len(suffix)
              /\ i' = IF AnchoredStart THEN 1 ELSE 0
              /\ last' = IF AnchoredEnd THEN Len(parts) - 1 ELSE Len(parts)
              /\ pc' = "multi"
              /\ UNCHANGED <<pattern, value, start, kind, parts, result>>
         ELSE Return(FALSE) /\ UNCHANGED <<lo, hi, i, last>>

\* The places of a literal in the part of the value that is left.
Places(lit) == {k \in lo..hi : k + Len(lit) <= hi /\ At(lit, k)}

\* One literal, at its first place.
FindPart ==
  /\ pc = "multi"
  /\ i < last
  /\ LET lit == Text(parts[i + 1])
     IN  IF Places(lit) = {}
         THEN Return(FALSE) /\ UNCHANGED <<lo, hi, i, last>>
         ELSE /\ lo' = Min(Places(lit)) + Len(lit)
              /\ i' = i + 1
              /\ UNCHANGED <<pattern, value, pc, start, kind, parts, hi, last, result>>

AllFound ==
  /\ pc = "multi"
  /\ i >= last
  /\ Return(TRUE)
  /\ UNCHANGED <<lo, hi, i, last>>

Next == New \/ SplitAt \/ EndSplit \/ MatchKind \/ Anchors \/ FindPart \/ AllFound

Spec == Init /\ [][Next]_vars

-----------------------------------------------------------------------------
\* What a pattern means: a wildcard stands for any word, a letter for itself.

\* Where the first j characters of a pattern end in a value, when the word that
\* wildcard s stands for ends at w[s].
EndOf(p, w, j) ==
  LET before == {s \in Stars(p) : s <= j}
  IN  IF before = {} THEN j ELSE w[Max(before)] + (j - Max(before))

Means(p, v) ==
  \E w \in [Stars(p) -> 0..Len(v)] :
    /\ EndOf(p, w, Len(p)) = Len(v)
    /\ \A j \in 1..Len(p) :
         IF p[j] = Star THEN EndOf(p, w, j - 1) <= w[j]
         ELSE EndOf(p, w, j) <= Len(v) /\ v[EndOf(p, w, j)] = p[j]

\* matches() answers what the pattern means, for every kind new() may pick: the
\* short cuts lose nothing, and taking every literal at its first place between
\* the anchors never misses a match.
AgreesWithMeaning == pc = "done" => (result <=> Means(pattern, value))

\* Every slice that matches() takes, of the pattern, of the value and of the parts,
\* is within bounds: in the code an inverted range panics, and a panic aborts the
\* process.
SlicesInRange ==
  /\ pc \in {"matches", "multi"} =>
       \A k \in DOMAIN parts : parts[k][1] < parts[k][2] /\ parts[k][2] <= Len(pattern)
  /\ pc = "multi" => lo <= hi /\ hi <= Len(value) /\ i <= last /\ last <= Len(parts)
=============================================================================
