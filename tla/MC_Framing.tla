----------------------------- MODULE MC_Framing -----------------------------
EXTENDS Framing

\* Strings of up to two bytes, chunk data including bytes 0 and 255.
MCStrings == {<<>>, <<97>>, <<97, 98>>}

MCFile == [filename |-> <<97>>, size |-> 13, hash |-> <<104>>, last_modified |-> 7]

MCMessages ==
  {[type |-> t, body |-> <<>>] : t \in {PEER_LIST_REQUEST, FILE_COMPLETE, PING}}
  \cup {[type |-> PEER_LIST_RESPONSE, body |-> b] : b \in {<<>>, <<<<97, 98>>, <<>>>>}}
  \cup {[type |-> FILE_LIST_REQUEST, body |-> b] : b \in {<<>>, <<97>>}}
  \cup {[type |-> FILE_LIST_RESPONSE, body |-> b] : b \in {<<>>, <<MCFile>>}}
  \cup {[type |-> FILE_REQUEST, body |-> [filename |-> n, offset |-> o, length |-> l]] :
          n \in MCStrings, o \in {0, 8192}, l \in {0, 3}}
  \cup {[type |-> FILE_CHUNK, body |-> [chunk_data |-> c, offset |-> o]] :
          c \in {<<>>, <<0, 255>>}, o \in {0, 8192}}
  \cup {[type |-> ERROR_MESSAGE, body |-> [code |-> 1, message |-> <<97>>]]}

====
