----------------------------- MODULE FileContent -----------------------------
(***************************************************************************)
(* What readi(), writei() and mmap() promise about a file nobody resizes:   *)
(* whoever has the inode's lock sees the page the last writer left, one      *)
(* page at a time, and only a writer that copied bytes in changes it.  That  *)
(* pages travel between the disk and a cache is invisible.                   *)
(***************************************************************************)
CONSTANTS Procs, Files, Pages, Val, None

VARIABLES content,  \* content[f][g]: what is in page g of file f
          use       \* use[p]: the page p has in its hands, as p sees it

vars == <<content, use>>

Init ==
  /\ content \in [Files -> [Pages -> Val]]
  /\ use = [p \in Procs |-> None]

(* p finds page g of f; the inode's lock keeps everybody else off f. *)
Get(p, f, g, writes) ==
  /\ use[p] = None
  /\ \A q \in Procs : use[q] # None => use[q].file # f
  /\ use' = [use EXCEPT ![p] = [file |-> f, page |-> g, writes |-> writes,
                                seen |-> content[f][g]]]
  /\ UNCHANGED content

(* p is done: a writer has replaced the page, or failed; a reader has not. *)
Done(p) ==
  /\ use[p] # None
  /\ use' = [use EXCEPT ![p] = None]
  /\ \/ UNCHANGED content
     \/ /\ use[p].writes
        /\ \E v \in Val : content' = [content EXCEPT ![use[p].file][use[p].page] = v]

Next ==
  \E p \in Procs :
    \/ \E f \in Files, g \in Pages, w \in BOOLEAN : Get(p, f, g, w)
    \/ Done(p)

Spec == Init /\ [][Next]_vars
=============================================================================
