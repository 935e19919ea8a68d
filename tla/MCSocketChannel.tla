-------------------------- MODULE MCSocketChannel --------------------------
(* TLC instances of SocketChannel: the library alone with messages that    *)
(* share blocks, a user who also calls shutdown functions and writes from  *)
(* other threads, and the two uses in which the code goes wrong.           *)
EXTENDS SocketChannel

Alone == [lengths |-> {1, 3}, kMaxCountOfWriteVOnce |-> 3, userOps |-> {},
          remoteWrites |-> FALSE, spuriousRead |-> FALSE,
          maxBytes |-> 5, maxInbound |-> 1, maxUserOps |-> 0]

Shared == [lengths |-> {1, 2}, kMaxCountOfWriteVOnce |-> 2,
           userOps |-> {"shutdown", "shutdownRead", "shutdownWrite"},
           remoteWrites |-> TRUE, spuriousRead |-> TRUE,
           maxBytes |-> 3, maxInbound |-> 1, maxUserOps |-> 2]

ManyChunks == [Alone EXCEPT !.lengths = {2}, !.kMaxCountOfWriteVOnce = 1,
                            !.maxBytes = 6, !.maxInbound = 0]

ShutdownWriter == [Alone EXCEPT !.lengths = {1}, !.kMaxCountOfWriteVOnce = 2,
                                !.userOps = {"shutdownWrite"}, !.maxBytes = 2,
                                !.maxInbound = 0, !.maxUserOps = 1]

LibraryAndUser == {Alone, Shared}
GapUse == {ManyChunks}
ShutdownWriteUse == {ShutdownWriter}
=============================================================================
