---------------------------- MODULE MCShortcuts -----------------------------
(* A chain of two holdings and the one it makes redundant.                    *)
EXTENDS Shortcuts, Worlds

Short == Chain \ {<<"c", "b">>}
=============================================================================
