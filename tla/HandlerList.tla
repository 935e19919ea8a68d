---------------------------- MODULE HandlerList ----------------------------
(***************************************************************************)
(* What a pipeline promises: it is a list of handlers, and an event goes   *)
(* from the first handler to the one that stands behind it at the moment   *)
(* it forwards the event, and ends with a handler that is the last, that   *)
(* does not forward it, or that is no longer in the list.                  *)
(***************************************************************************)
EXTENDS Integers, Sequences, SequencesExt

CONSTANTS Handlers, nullptr, handlerName, HandlerNames

VARIABLES list,      \* the handlers in the pipeline
          current,   \* the handler that the event has reached, or nullptr
          returned   \* the last call and the handler it added or took out

listVars == <<list, current, returned>>

ListInit == list = << >> /\ current = nullptr /\ returned = <<"none", nullptr>>

Insert(h) == /\ \/ returned' = <<"addFirst", h>> /\ list' = <<h>> \o list
                \/ returned' = <<"addLast", h>> /\ list' = list \o <<h>>
             /\ ~ Contains(list, h)
             /\ UNCHANGED current

(* A remove function takes out the first of the places it looks for, and   *)
(* nothing if there is none.                                               *)
TakeOut(call, places) ==
    /\ \/ places = {} /\ returned' = <<call, nullptr>> /\ UNCHANGED list
       \/ \E i \in places : /\ \A j \in places : i <= j
                            /\ returned' = <<call, list[i]>>
                            /\ list' = RemoveAt(list, i)
    /\ UNCHANGED current

Named(name) == {i \in 1 .. Len(list) : name # "" /\ handlerName[list[i]] = name}
Place(h) == {i \in 1 .. Len(list) : list[i] = h}

Begin == /\ current = nullptr
         /\ list # << >> /\ current' = Head(list)
         /\ UNCHANGED <<list, returned>>

Behind(h) == {list[i + 1] : i \in {j \in 1 .. Len(list) - 1 : list[j] = h}}

Go == /\ current # nullptr
      /\ current' \in IF Behind(current) = {} THEN {nullptr} ELSE Behind(current)
      /\ UNCHANGED <<list, returned>>

Finish == current' = nullptr /\ UNCHANGED <<list, returned>>

ListNext == \/ \E h \in Handlers : Insert(h)
            \/ TakeOut("removeFirst", {1} \cap 1 .. Len(list))
            \/ TakeOut("removeLast", {Len(list)} \cap 1 .. Len(list))
            \/ \E name \in HandlerNames : TakeOut(name, Named(name))
            \/ \E h \in Handlers : TakeOut(h, Place(h))
            \/ Begin \/ Go \/ Finish

ListSpec == ListInit /\ [][ListNext]_listVars
=============================================================================
