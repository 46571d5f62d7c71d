----------------------------- MODULE CacheWindow -----------------------------
(***************************************************************************)
(* A Kaillera cache as a value: a window on the last CacheSize contents    *)
(* stored, oldest first, whose positions are numbered from 0. Both ends of *)
(* a game channel keep one per direction and must agree on it: a content   *)
(* is sent in full once and named by its position afterwards.              *)
(***************************************************************************)
EXTENDS Integers, Sequences

CONSTANT CacheSize   \* how many contents the window holds (256 in the code)

None == -1

Full(s) == Len(s) >= CacheSize

Store(s, d) == Append(IF Full(s) THEN Tail(s) ELSE s, d)

\* The position a scan from the newest end finds, or None.
Newest(s, d) ==
  IF \E i \in DOMAIN s : s[i] = d
  THEN (CHOOSE i \in DOMAIN s : /\ s[i] = d
                                /\ \A j \in DOMAIN s : s[j] = d => j <= i) - 1
  ELSE None

\* An Option as a sequence of at most one content.
At(s, pos) == IF pos + 1 \in DOMAIN s THEN <<s[pos + 1]>> ELSE <<>>
==============================================================================
