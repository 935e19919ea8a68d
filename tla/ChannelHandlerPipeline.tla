----------------------- MODULE ChannelHandlerPipeline -----------------------
(***************************************************************************)
(* nets::ChannelHandlerPipeline: handlers linked by their next_ pointers,  *)
(* through which the pipelines of socket and datagram channels pass their  *)
(* events.  A handler is user code: while an event is with it, it may      *)
(* change the pipeline in any way, itself included, and then forward the   *)
(* event along its next_ pointer or not.                                   *)
(*                                                                         *)
(* A handler is added only while it is in no pipeline.                     *)
(***************************************************************************)
EXTENDS Integers, Sequences, SequencesExt, FiniteSets

CONSTANTS Handlers, nullptr,
          handlerName,   \* name_ of every handler, "" for none
          HandlerNames   \* names that callers remove by

ASSUME PipelineAssumption == IsFiniteSet(Handlers) /\ nullptr \notin Handlers

VARIABLES headChannelHandler,   \* headChannelHandler_
          next,                 \* next_ of every handler
          current,              \* the handler that the event has reached
          returned              \* the last call and what it returned

pipelineVars == <<headChannelHandler, next, current, returned>>

PipelineInit == /\ headChannelHandler = nullptr
                /\ next = [h \in Handlers |-> nullptr]
                /\ current = nullptr
                /\ returned = <<"none", nullptr>>

(* The handlers from h on, as far as following the links shows them.       *)
From(h, links) ==
    LET step[n \in 1 .. Cardinality(Handlers) + 1] ==
            IF n = 1 THEN h
            ELSE IF step[n - 1] = nullptr THEN nullptr ELSE links[step[n - 1]]
    IN [n \in {n \in DOMAIN step : step[n] # nullptr} |-> step[n]]

pipeline == From(headChannelHandler, next)

findLast == Last(pipeline)

(* The handler before the first one that is looked for, the head excepted; *)
(* findLastPrev() looks for the last one.                                  *)
findChannelHandlerPrev(wanted) ==
    LET found == {i \in 2 .. Len(pipeline) : pipeline[i] \in wanted}
    IN IF found = {} THEN nullptr
       ELSE pipeline[(CHOOSE i \in found : \A j \in found : i <= j) - 1]

-----------------------------------------------------------------------------
addFirst(h) ==
    /\ next' = IF headChannelHandler = nullptr THEN next
               ELSE [next EXCEPT ![h] = headChannelHandler]
    /\ headChannelHandler' = h
    /\ returned' = <<"addFirst", h>>
    /\ UNCHANGED current

addLast(h) ==
    /\ IF headChannelHandler = nullptr
       THEN headChannelHandler' = h /\ UNCHANGED next
       ELSE next' = [next EXCEPT ![findLast] = h] /\ UNCHANGED headChannelHandler
    /\ returned' = <<"addLast", h>>
    /\ UNCHANGED current

(* A plausible mistake: the handler keeps its successor.                   *)
unlinkHeadKeepsNext ==
    /\ headChannelHandler' = next[headChannelHandler]
    /\ UNCHANGED next

unlinkHead ==
    /\ headChannelHandler' = next[headChannelHandler]
    /\ next' = [next EXCEPT ![headChannelHandler] = nullptr]

unlinkChannelHandler(prev, h) ==
    /\ next' = [next EXCEPT ![prev] = next[h], ![h] = nullptr]
    /\ UNCHANGED headChannelHandler

Nothing(call) == UNCHANGED <<headChannelHandler, next>> /\ returned' = <<call, nullptr>>

(* The four remove functions: the head, or a handler found behind it.      *)
removeFirst ==
    /\ IF headChannelHandler = nullptr THEN Nothing("removeFirst")
       ELSE unlinkHead /\ returned' = <<"removeFirst", headChannelHandler>>
    /\ UNCHANGED current

removeLast ==
    /\ \/ headChannelHandler = nullptr /\ Nothing("removeLast")
       \/ /\ headChannelHandler # nullptr
          /\ returned' = <<"removeLast", findLast>>
          /\ IF next[headChannelHandler] = nullptr THEN unlinkHead
             ELSE LET prev == findChannelHandlerPrev({findLast})
                  IN next' = [next EXCEPT ![prev] = nullptr] /\ UNCHANGED headChannelHandler
    /\ UNCHANGED current

RemoveOneOf(call, wanted) ==
    LET prev == findChannelHandlerPrev(wanted)
    IN IF headChannelHandler \in wanted
       THEN unlinkHead /\ returned' = <<call, headChannelHandler>>
       ELSE IF prev = nullptr THEN Nothing(call)
            ELSE unlinkChannelHandler(prev, next[prev]) /\ returned' = <<call, next[prev]>>

removeByName(name) ==
    /\ IF headChannelHandler = nullptr \/ name = "" THEN Nothing(name)
       ELSE RemoveOneOf(name, {h \in Handlers : handlerName[h] = name})
    /\ UNCHANGED current

remove(h) ==
    /\ IF headChannelHandler = nullptr THEN Nothing(h) ELSE RemoveOneOf(h, {h})
    /\ UNCHANGED current

-----------------------------------------------------------------------------
(* fireSocketChannelConnect() and the other events start at the head ...   *)
fire == /\ current = nullptr /\ headChannelHandler # nullptr
        /\ current' = headChannelHandler
        /\ UNCHANGED <<headChannelHandler, next, returned>>

(* ... and fireChannelConnect() of a handler passes one on.                *)
fireChannel == /\ current # nullptr
               /\ current' = next[current]
               /\ UNCHANGED <<headChannelHandler, next, returned>>

(* A handler that overrides channelRead() and does not forward.            *)
Consume == /\ current # nullptr
           /\ current' = nullptr
           /\ UNCHANGED <<headChannelHandler, next, returned>>

PipelineNext ==
    \/ \E h \in Handlers : \/ ~ Contains(pipeline, h) /\ (addFirst(h) \/ addLast(h))
                           \/ remove(h)
    \/ \E name \in HandlerNames : removeByName(name)
    \/ removeFirst \/ removeLast
    \/ fire \/ fireChannel \/ Consume

PipelineSpec == PipelineInit /\ [][PipelineNext]_pipelineVars

-----------------------------------------------------------------------------
(* The linked handlers are a list to every user of it: additions and       *)
(* removals, also of the handler an event is with, leave the others linked *)
(* in their order, what was taken out can be added again, and an event     *)
(* goes on to the handler that follows in the list as it is then.          *)
List == INSTANCE HandlerList WITH list <- pipeline
ListSpec == List!ListSpec
=============================================================================
