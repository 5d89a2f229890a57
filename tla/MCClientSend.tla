----------------------------- MODULE MCClientSend -----------------------------
(* Messages of an application, for TLC: the longest whose TLS record fits the *)
(* pool's buffer, one byte more, and one the frame encoder refuses.           *)
EXTENDS ClientSend

Texts == {Message("TextMessage", {"message"}, {}, {}, bulk) : bulk \in {16348, 16349, 1048570}}
===============================================================================
