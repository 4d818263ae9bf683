------------------------------ MODULE MCJoylink ------------------------------
(* The session of JoyLink, with the checks of the cryptography and of the  *)
(* packets under it.                                                       *)
EXTENDS JoylinkSession, JoylinkTests, EccTests
==============================================================================
