-------------------------------- MODULE Vmem --------------------------------
(***************************************************************************)
(* The virtual memory layer (system/vmem.c), at the granularity of pages.  *)
(*                                                                         *)
(* The lower VM_PINNED_SIZE pages of physical memory are always mapped.    *)
(* Anything above is seen through one window of VM_WINDOW_SIZE pages, and  *)
(* vmem.c only remembers which one: a virtual page above VM_PINNED_SIZE is *)
(* turned back into a physical page with the number of the mapped window.  *)
(***************************************************************************)
EXTENDS Integers

CONSTANTS
    VM_WINDOW_SIZE,     \* pages in a window (1 GB in the source)
    VM_PINNED_SIZE      \* pages mapped permanently (2 GB in the source)

(***************************************************************************)
(* The source builds both from PAGE_C: two windows' worth are pinned.      *)
(***************************************************************************)
ASSUME VmemAssumption ==
    /\ VM_WINDOW_SIZE \in Nat \ {0}
    /\ VM_PINNED_SIZE = 2 * VM_WINDOW_SIZE

\* The window a physical page belongs to.
WindowOf(page) == page \div VM_WINDOW_SIZE

\* The mapped_window left by map_window(start_page), and its initial value.
InitMappedWindow == 2

\* Mutant of map_window: window 2 counts as always mapped.
map_window_pinned(start_page, mapped_window) ==
    IF WindowOf(start_page) <= 2 THEN mapped_window ELSE WindowOf(start_page)

map_window(start_page, mapped_window) ==
    IF WindowOf(start_page) < 2 THEN mapped_window ELSE WindowOf(start_page)

\* The virtual page at which a physical page is seen.
first_word_mapping(page) ==
    IF page < VM_PINNED_SIZE
        THEN page
        ELSE VM_PINNED_SIZE + (page % VM_WINDOW_SIZE)

\* The physical page the program reports for a virtual page.
page_of(vpage, mapped_window) ==
    IF vpage < VM_PINNED_SIZE
        THEN vpage
        ELSE (vpage % VM_WINDOW_SIZE) + (mapped_window * VM_WINDOW_SIZE)
=============================================================================
