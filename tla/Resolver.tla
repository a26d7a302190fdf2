------------------------------ MODULE Resolver ------------------------------
(***************************************************************************)
(* The resolver half of the daemon's event loop (ironscope/src/main.rs):   *)
(* it takes candidates from RESOLVER_EVENTS, reads the tool's name from    *)
(* the memory of the traced process and publishes it, first in TOOL_OBJ,   *)
(* then in TOOL_CTX.  It runs in user space beside the probes, so every    *)
(* map access and the read of the object is a step of its own.             *)
(***************************************************************************)
EXTENDS ToolIdentity

VARIABLES
  m,   \* the kernel maps
  py,  \* the process memory
  d    \* the daemon: where it is in the loop, the id it resolved for the
       \* event at the head of the ring, and its copy of the TOOL_CTX entry

DaemonType == [pc : {"next", "read_object", "insert_obj", "get_ctx", "insert_ctx"},
               tool : ToolIds \cup {TOOL_IDLE}, ctx : ToolCtx \cup {NULL}]
DaemonIdle == [pc |-> "next", tool |-> TOOL_IDLE, ctx |-> NULL]

Event == Head(m.RESOLVER_EVENTS)

(* The item is released at the end of the loop body.                        *)
NextEvent == [m EXCEPT !.RESOLVER_EVENTS = Tail(@)]

(* A reported failure is only logged.                                       *)
ResolverTake ==
  /\ d.pc = "next"
  /\ m.RESOLVER_EVENTS # <<>>
  /\ IF Event.failed THEN m' = NextEvent /\ d' = d
     ELSE m' = m /\ d' = [d EXCEPT !.pc = "read_object"]
  /\ UNCHANGED py

(* No context to update: the event is done.                                 *)
GoToCtx(maps, tool) ==
  IF Event.ctx_id = NULL
  THEN m' = [maps EXCEPT !.RESOLVER_EVENTS = Tail(@)] /\ d' = DaemonIdle
  ELSE m' = maps /\ d' = [pc |-> "get_ctx", tool |-> tool, ctx |-> NULL]

(* LangChainResolver::resolve_tool reads what is at self_ptr now.           *)
ResolverReadObject ==
  /\ d.pc = "read_object"
  /\ m' = m
  /\ d' = [d EXCEPT !.pc = "insert_obj", !.tool = py.tool[Event.self_ptr]]
  /\ UNCHANGED py

(* Faulty variant: the failure is only logged.                              *)
ResolverReadFails_unmarked ==
  /\ d.pc = "read_object"
  /\ m' = NextEvent
  /\ d' = DaemonIdle
  /\ UNCHANGED py

(* The read or the classification of the code failed: the context, if any,  *)
(* is to be marked.                                                         *)
ResolverReadFails ==
  /\ d.pc = "read_object"
  /\ GoToCtx(m, TOOL_IDLE)
  /\ UNCHANGED py

(* Faulty variant: the id is cached for all objects of the type.            *)
ResolverInsertObj_by_type ==
  /\ d.pc = "insert_obj"
  /\ GoToCtx([m EXCEPT !.TOOL_OBJ = [o \in Objs |->
                 IF py.type[o] = Event.type_ptr
                 THEN [tool_id |-> d.tool, type_ptr |-> Event.type_ptr] ELSE @[o]]], d.tool)
  /\ UNCHANGED py

(* The id is cached under the type the kernel saw.                          *)
ResolverInsertObj ==
  /\ d.pc = "insert_obj"
  /\ GoToCtx([m EXCEPT !.TOOL_OBJ[Event.self_ptr] =
                         [tool_id |-> d.tool, type_ptr |-> Event.type_ptr]], d.tool)
  /\ UNCHANGED py

ResolverGetCtx ==
  /\ d.pc = "get_ctx"
  /\ IF ctx_is_live(m, Event.ctx_id)
     THEN m' = m /\ d' = [d EXCEPT !.pc = "insert_ctx", !.ctx = m.TOOL_CTX[Event.ctx_id]]
     ELSE m' = NextEvent /\ d' = DaemonIdle
  /\ UNCHANGED py

(* The whole entry is written back from the copy, whatever happened to it   *)
(* since; a failure is marked, a success leaves an earlier mark.            *)
ResolverInsertCtx ==
  /\ d.pc = "insert_ctx"
  /\ m' = [NextEvent EXCEPT !.TOOL_CTX[Event.ctx_id] =
             [d.ctx EXCEPT !.tool_id = d.tool,
                           !.resolver_error = @ \/ d.tool = TOOL_IDLE]]
  /\ d' = DaemonIdle
  /\ UNCHANGED py

ResolverNext ==
  \/ ResolverTake
  \/ ResolverReadObject
  \/ ResolverReadFails
  \/ ResolverInsertObj
  \/ ResolverGetCtx
  \/ ResolverInsertCtx
=============================================================================
