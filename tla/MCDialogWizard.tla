---------------------------- MODULE MCDialogWizard ----------------------------
(* Five disks, one of them possibly the boot media; sizes play no part here.  *)
EXTENDS DialogWizard

CONSTANTS d1, d2, d3, d4, d5

MCDisk == {d1, d2, d3, d4, d5}
MCSize == [d \in MCDisk |-> 8]
MCInventories == {{}, {d1}, {d1, d2, d3}, MCDisk}
MCMedia == {None, d1}
MCTyped == {None, 0, 20}
==============================================================================
