------------------------------- MODULE MCVmm --------------------------------
(***************************************************************************)
(* Address spaces on a small machine.  The names of pages and of roots     *)
(* carry no information, but a page that is freed and taken again comes    *)
(* back under another name, so states are told apart by CanonicalView: a   *)
(* root is known by the tasks that run in it (at most one root, left by a  *)
(* failed execve, has none) and a page by the places that map it.  What    *)
(* nothing maps is only counted.                                           *)
(***************************************************************************)
EXTENDS Vmm

\* One table of each kind in one place; or a page table per page.
OneTable == [a \in Va |-> <<1, 1, 1>>]
TablePerPage == [a \in Va |-> <<1, 1, a + 1>>]

Owner(r) == {t \in Used : cr3[t] = r}
MappedAt(p) == {<<Owner(x[1]), x[2]>> : x \in {y \in Roots(vm) \X Va : vm.as[y[1]].pte[y[2]].page = p}}
EntryView(e) == IF e.page \in Page THEN <<MappedAt(e.page), e.w, e.cow, vm.refs[e.page], e.page \in vm.lost>>
                ELSE <<{}, e.w, e.cow, 0, e.page = Fb>>
SpaceView(r) == <<Owner(r), vm.as[r].tab, {<<a, EntryView(vm.as[r].pte[a])>> : a \in Va}>>
\* Which pages and tables there are and who maps them, for the properties that
\* are about nothing else.  The two equations make TLC bring the values into
\* normal form.
MappingView ==
    <<vm = vm, lazy = lazy, vm.free, {SpaceView(r) : r \in Roots(vm)},
      Cardinality(vm.lost), Cardinality({x \in Page \X (1 .. RefMax) : x[2] <= vm.refs[x[1]]}),
      tstate, parent, word, lazy, cursor, Owner(sysCr3)>>
\* And what the pages hold, and the history that no step reads: the protection
\* asked for, the last stores, and which pages are exempt from Isolation (what
\* these hold plays no part any more).
Contents(r, a) ==
    LET p == vm.as[r].pte[a].page
    IN  IF p \in vm.breach THEN <<TRUE, 0, 0>>
        ELSE <<FALSE, IF p \in Page THEN vm.mem[p] ELSE 0, vm.as[r].view[a]>>
CanonicalView ==
    <<MappingView,
      {<<Owner(r), {<<a, vm.as[r].prot[a], Contents(r, a)>> : a \in Va}>> : r \in Roots(vm)}>>
=============================================================================
