------------------------------- MODULE MCRedact -------------------------------
(* Messages of up to four pieces: spaces, letters, wide letters, an invalid  *)
(* byte, an override, both candidates ("pkcs11:" shortened), and a scheme    *)
(* with one slash.                                                           *)
EXTENDS Redact

MCSpace == {" ", "tab"}
MCUnprintable == MCSpace \cup {"override"}
MCInvalid == {"invalid"}
MCCharacters == {"a", "wide", ":", "/", "p"} \cup MCUnprintable \cup MCInvalid \cup {"?", "_", "-"}
MCWidth == [c \in MCCharacters |-> IF c \in {"wide", "override"} THEN 4 ELSE 1]
MCCandidates == {<<":", "/", "/">>, <<"p", ":">>}
MCPieces == {<< >>, <<"a">>, <<"wide">>, <<" ">>, <<"tab">>, <<"invalid">>, <<"override">>, <<"a", ":", "/">>} 
              \cup MCCandidates
MCMessages == {a \o b \o c \o d : a, b, c, d \in MCPieces}
MCSchemes == {[i \in 1 .. n |-> "a"] : n \in {1, 20}}
=============================================================================
