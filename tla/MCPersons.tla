----------------------------- MODULE MCPersons ------------------------------
(* Three spellings of one name, two of which the desk knows to be different.  *)
EXTENDS Persons, Worlds
=============================================================================
