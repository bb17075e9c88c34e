------------------------------- MODULE MCFtl -------------------------------
(***************************************************************************)
(* Instances of the FTL for model checking.                                *)
(***************************************************************************)
EXTENDS Ftl

\* Requests of one page.
Pages == {<<l, 1>> : l \in LPN}

RemapPages(opes) == {<<s, d, 1, o>> : s \in LPN, d \in LPN, o \in opes}
CkptPages        == RemapPages({REMAP_CKPT})

CkptsAndMove == CkptPages \cup {<<1, 0, 1, REMAP_MOVE>>}

\* Requests of two pages: the forward copy between overlapping ranges makes all
\* three pages share one, the backward move gives back what it has just taken,
\* and a page is remapped onto itself.
StoreWrites   == {<<0, 2>>}
StoreRemaps   == {<<0, 1, 2, REMAP_COPY>>, <<1, 0, 2, REMAP_MOVE>>, <<0, 0, 1, REMAP_COPY>>}
StoreDiscards == {<<0, 2>>}

\* Two shared pages and a page that is written again and again.
SharedWrites  == {<<0, 4>>, <<4, 1>>}
SharedRemaps  == {<<0, 1, 1, REMAP_COPY>>, <<2, 3, 1, REMAP_COPY>>}

DataSymmetry == Permutations(Data)
=============================================================================
