----------------------------- MODULE PublicAnswer -----------------------------
(***************************************************************************)
(* What of a text leaves the system: sanitize_public_answer, which is      *)
(* given a whole text, and PublicAnswerStream, which is given its pieces   *)
(* as a model writes them.                                                 *)
(*                                                                         *)
(* A text is a sequence of pieces; w says what a piece is:                 *)
(*   "a" prose, "neg" prose that denies a capability, "nl" an end of line, *)
(*   "m1" "m2" the halves of a memory marker (of an internal line, if they *)
(*   start one), "o1" "o2" those of an ornamented one cut where the stream *)
(*   does not look for it, in the bold sign or behind a heading and a bold *)
(*   sign, "i1" "i2" the halves of an internal identity.                   *)
(* The texts of the code itself are pieces too: "name" stands for the      *)
(* readable name an identity is replaced by, the others are whole answers. *)
(***************************************************************************)
EXTENDS Integers, Sequences, Filter

Fixed(w) == <<[w |-> w, by |-> "code", n |-> 0]>>
Unavailable == Fixed("unavailable")
Leak == Fixed("leak")

Is(t, i, w) == i \in DOMAIN t /\ t[i].w = w
StartsLine(t, i) == i = 1 \/ Is(t, i - 1, "nl")
Lines(t, first, second) == {i \in DOMAIN t : Is(t, i, first) /\ Is(t, i + 1, second) /\ StartsLine(t, i)}
\* _INTERNAL_MEMORY_LINE takes a heading and a bold sign before the marker.
MemoryLines(t) == Lines(t, "m1", "m2") \cup Lines(t, "o1", "o2")
\* _INTERNAL_TOKEN
Identities(t) == {i \in DOMAIN t : Is(t, i, "i1") /\ Is(t, i + 1, "i2")}

Least(S) == CHOOSE i \in S : \A j \in S : i <= j
Greatest(S) == CHOOSE i \in S : \A j \in S : j <= i
\* str.rstrip
Stripped(t) == SubSeq(t, 1, Greatest({0} \cup {i \in DOMAIN t : t[i].w # "nl"}))
BeforeMemory(t) == Stripped(SubSeq(t, 1, Least(MemoryLines(t)) - 1))

Renamed(t) ==
    LET left == Without([i \in DOMAIN t |-> i], {i + 1 : i \in Identities(t)}) IN
    [k \in DOMAIN left |-> IF left[k] \in Identities(t) THEN [t[left[k]] EXCEPT !.w = "name"] ELSE t[left[k]]]

\* Mutant: the citations' identities are replaced, what follows a memory line stays.
SanitizeNames(t) == Renamed(t)
Sanitize(t) ==
    IF MemoryLines(t) = {} THEN Renamed(t)
    ELSE IF BeforeMemory(t) = <<>> THEN Leak
    ELSE Renamed(BeforeMemory(t))

(***************************************************************************)
(* PublicAnswerStream.  A step gives the stream's next state and, in out,  *)
(* the text that may be shown.                                             *)
(***************************************************************************)
Fresh == [buffer |-> <<>>, blocked |-> FALSE, emitted |-> FALSE]

LineStart(t) == Greatest({0} \cup {i \in DOMAIN t : t[i].w = "nl"})
\* _possible_memory_prefix_start: what the last line has so far may become a memory line.  One heading or one whole bold
\* sign is taken off before the marker is looked for: "o1" is not seen to be the start of one.
MayBeMemory(t) ==
    LET line == SubSeq(t, LineStart(t) + 1, Len(t)) IN
    line = <<>> \/ (Len(line) = 1 /\ Is(line, 1, "m1"))
\* _STREAM_INTERNAL_SUFFIX, _INTERNAL_PREFIXES: the text ends in an identity, which may go on, or in the start of one.
IdentityAtEnd(t) == {i \in DOMAIN t : Is(t, i, "i1") /\ i \in {Len(t)} \cup {k \in {Len(t) - 1} : Is(t, k + 1, "i2")}}

Emit(s, ready, rest, blocked) ==
    LET public == Sanitize(ready) IN
    [s |-> [buffer |-> rest, blocked |-> blocked, emitted |-> s.emitted \/ public # <<>>], out |-> public]

\* Mutant: only a whole identity at the end is kept back.
KeptWhole(t) == IF IdentityAtEnd(t) \ {Len(t)} # {} THEN Len(t) - 2 ELSE Len(t)
\* How much of a buffer may go: the tail that may grow into something internal is kept.
\* A buffer is not longer than its tail (tail_chars) as long as no identity is.
Kept(t) ==
    IF MayBeMemory(t) THEN LineStart(t)
    ELSE IF IdentityAtEnd(t) # {} THEN Least(IdentityAtEnd(t)) - 1
    ELSE Len(t)

Feed(s, delta) ==
    LET t == s.buffer \o delta IN
    IF s.blocked THEN [s |-> s, out |-> <<>>]
    ELSE IF MemoryLines(t) # {} THEN Emit(s, BeforeMemory(t), <<>>, TRUE)
    ELSE Emit(s, SubSeq(t, 1, Kept(t)), SubSeq(t, Kept(t) + 1, Len(t)), FALSE)

Flush(s) ==
    IF ~s.blocked THEN Emit(s, s.buffer, <<>>, FALSE)
    ELSE [s |-> [s EXCEPT !.buffer = <<>>, !.emitted = TRUE], out |-> IF s.emitted THEN <<>> ELSE Leak]
=============================================================================
