---------------------------- MODULE MCJarvisJob ----------------------------
(* Small instances of JarvisJob for TLC. *)
EXTENDS JarvisJob

(* A patch that removes the text it replaces, in calls of any kind; and one *)
(* that leaves it in place, proposed in a call of its own.                  *)
MCRequests ==
    {[patchable |-> {0}, stops |-> {"proposed", "applied", "verified"}],
     [patchable |-> {0, 1}, stops |-> {"proposed"}]}
=============================================================================
