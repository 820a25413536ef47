-------------------------- MODULE MCProtoSubscriber --------------------------
(***************************************************************************)
(* A topic with a message of the subscriber's type, and one that is not    *)
(* and is too long for publish besides.                                    *)
(***************************************************************************)
EXTENDS ProtoSubscriber

CONSTANTS proto, garbage

MCParsable == {proto}

MCSizeOf == [m \in Messages |-> IF m = proto THEN MaxPayload ELSE MaxPayload + 1]

=============================================================================
