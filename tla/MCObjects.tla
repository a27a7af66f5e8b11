----------------------------- MODULE MCObjects ------------------------------
(* ObjectLife for every kind of object. *)
EXTENDS ObjectLife, ObjectTables

MCProg == AllProg

MCKnownLeft == LeftByCode

MCKnownUse == UsedByCode

MCKnownStuck == StuckInCode
=============================================================================
