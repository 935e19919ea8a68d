----------------------------- MODULE MCLibrary -----------------------------
(* The TLC instance of those parts of the library that share no state with *)
(* each other: timers, byte buffers, the blocking queue, log line buffers, *)
(* handler pipelines and UDP channels.  Each behaviour exercises one part; *)
(* the others rest in one of their initial states.                         *)
EXTENDS TimerManager, ByteBuffer, BoundedBlockingQueue, StackBuffer,
        ChannelHandlerPipeline, DatagramChannel

VARIABLE part

libraryVars == <<part, vars, bufferVars, queueVars, stackVars, pipelineVars, datagramVars>>

(* Two takers and a producer, and two producers and a taker.               *)
TakersAndProducer == (1 :> {take, takeFor}) @@ (2 :> {takeUnless, takeForUnless})
                        @@ (3 :> {put, putFor, tryPush})
ProducersAndTaker == (1 :> {put, putFor}) @@ (2 :> {putUnless, putForUnless})
                        @@ (3 :> {take, takeUnless, tryPop})
QueuePrograms == {TakersAndProducer, ProducersAndTaker}

(* Two handlers of one name, one of another, one without.                  *)
Names == ("h1" :> "a") @@ ("h2" :> "a") @@ ("h3" :> "b") @@ ("h4" :> "")

LogNumbers == {-12, 7, 409}

LibraryInit ==
    /\ part \in {"timers", "buffers", "queue", "stack", "pipeline", "datagram"}
    /\ Init /\ BufferInit /\ QueueInit /\ StackInit /\ PipelineInit /\ DatagramInit
    /\ part # "queue" => program = TakersAndProducer
    /\ part # "datagram" => channelOptions = DefaultOptions

Timers == part = "timers" /\ Next
            /\ UNCHANGED <<part, bufferVars, queueVars, stackVars, pipelineVars, datagramVars>>
ByteBuffers == part = "buffers" /\ BufferNext
            /\ UNCHANGED <<part, vars, queueVars, stackVars, pipelineVars, datagramVars>>
Queues == part = "queue" /\ QueueNext
            /\ UNCHANGED <<part, vars, bufferVars, stackVars, pipelineVars, datagramVars>>
StackBufferStep == part = "stack" /\ StackNext
            /\ UNCHANGED <<part, vars, bufferVars, queueVars, pipelineVars, datagramVars>>
Pipelines == part = "pipeline" /\ PipelineNext
            /\ UNCHANGED <<part, vars, bufferVars, queueVars, stackVars, datagramVars>>
Datagrams == part = "datagram" /\ DatagramNext
            /\ UNCHANGED <<part, vars, bufferVars, queueVars, stackVars, pipelineVars>>

LibraryNext == Timers \/ ByteBuffers \/ Queues \/ StackBufferStep \/ Pipelines \/ Datagrams

(* The fairness of TimerManager, and a loop that keeps turning.            *)
LibrarySpec == /\ LibraryInit /\ [][LibraryNext]_libraryVars
               /\ WF_libraryVars(Timers /\ StartUpdate)
               /\ WF_libraryVars(Timers /\ UpdateStep)
               /\ WF_libraryVars(Datagrams /\ DatagramLoop)
=============================================================================
