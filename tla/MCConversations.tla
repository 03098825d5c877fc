--------------------------- MODULE MCConversations ---------------------------
EXTENDS Conversations

Shape(via, store, stream, ttl) == [via |-> via, store |-> store, stream |-> stream, ttl |-> ttl]

MCShapes ==
    {Shape("http", "true", FALSE, 1), Shape("ws", "true", TRUE, 0), Shape("ws", "false", TRUE, 0)}
=============================================================================
