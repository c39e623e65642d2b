----------------------------- MODULE PluginLife -----------------------------
(***************************************************************************)
(* The plugin as NPAPI sees it: the browser loads the library, exchanges   *)
(* function tables with it, makes and destroys instances (CPlugin), and    *)
(* asks an instance for its scriptable object, the page's NODE. What the   *)
(* page does with the plugin's objects meanwhile is ScriptAccess.          *)
(*                                                                         *)
(* The extension has one background page with one <embed>, so an instance  *)
(* is destroyed before the next one is made. The browser calls nothing on  *)
(* a destroyed instance and releases what it was given.                    *)
(***************************************************************************)
EXTENDS ScriptAccess

CONSTANTS
  Instances,   \* NPP structures
  NoInstance,
  MaxHeld,     \* bound: references of a scriptable object the page holds
  Tables       \* the function tables browsers come with, as in TableType

\* Fields of NPNetscapeFuncs that NP_Initialize copies.
Copied == {"geturlnotify", "geturl", "posturlnotify", "posturl", "requestread",
  "newstream", "write", "destroystream", "status", "uagent", "memalloc",
  "memfree", "memflush", "reloadplugins", "getvalue", "setvalue",
  "invalidaterect", "invalidateregion", "forceredraw", "getstringidentifier",
  "getstringidentifiers", "getintidentifier", "identifierisstring",
  "utf8fromidentifier", "intfromidentifier", "createobject", "retainobject",
  "releaseobject", "invoke", "invokeDefault", "evaluate", "getproperty",
  "setproperty", "removeproperty", "hasproperty", "hasmethod",
  "releasevariantvalue", "setexception", "pluginthreadasynccall"}

\* The rest of a whole table.
NotCopied == {"getJavaEnv", "getJavaPeer", "pushpopupsenabledstate",
  "poppopupsenabledstate", "enumerate", "construct", "getvalueforurl",
  "setvalueforurl", "getauthenticationinfo"}

EntryPoints == {"newp", "destroy", "setwindow", "newstream", "destroystream",
  "asfile", "writeready", "write", "print", "event", "urlnotify", "getvalue",
  "setvalue"}

\* A browser's table: the functions it has, and whether its major version is
\* no newer than the plugin's.
TableType(t) ==
  /\ DOMAIN t = {"functions", "compatible"}
  /\ t.functions \subseteq Copied \cup NotCopied /\ t.compatible \in BOOLEAN
Whole(t) == t.functions = Copied \cup NotCopied

ASSUME LifeAssumption ==
  /\ \A t \in Tables : TableType(t)
  /\ NoInstance \notin Instances
  /\ MaxHeld \in Nat

VARIABLES
  entries,     \* the browser's NPPluginFuncs, once filled
  functions,   \* NPNFuncs: the fields that are not NULL
  live,        \* instances with a CPlugin
  ended,       \* instances whose CPlugin is deleted
  made,        \* instances whose scriptable object has been made
  refs,        \* its reference count
  freed,       \* instances whose scriptable object is freed
  held,        \* references of it the page holds
  window,      \* sWindowObj: the instance whose page's window it is
  windowRefs,  \* references of each page's window that the plugin holds
  threads,     \* threads running run_uv
  nullCall     \* history: a call went through a table entry that is not there

lifeVars == <<entries, functions, live, ended, made, refs, freed, held, window,
              windowRefs, threads, nullCall>>
vars == <<lifeVars, accessVars>>

TypeOK ==
  /\ AccessTypeOK
  /\ entries \in {{}, EntryPoints}
  /\ functions \subseteq Copied
  /\ live \subseteq Instances /\ ended \subseteq Instances
  /\ live \cap ended = {}
  /\ made \subseteq live \cup ended /\ freed \subseteq made
  /\ refs \in [Instances -> Nat] /\ held \in [Instances -> 0 .. MaxHeld]
  /\ window \in live \cup ended \cup {NoInstance}
  /\ windowRefs \in [Instances -> Nat]
  /\ threads \in Nat
  /\ nullCall \in BOOLEAN

Init ==
  /\ AccessInit
  /\ entries = {} /\ functions = {}
  /\ live = {} /\ ended = {} /\ made = {} /\ freed = {}
  /\ refs = [i \in Instances |-> 0] /\ held = [i \in Instances |-> 0]
  /\ window = NoInstance /\ windowRefs = [i \in Instances |-> 0]
  /\ threads = 0
  /\ nullCall = FALSE

-----------------------------------------------------------------------------
(* The tables.                                                             *)

\* The browser calls an entry point; NPN_ functions go through NPNFuncs.
Crossing(entry, gates) ==
  nullCall' = (nullCall \/ entry \notin entries \/ ~ gates \subseteq functions)

NP_GetEntryPoints ==
  /\ entries = {}
  /\ entries' = EntryPoints
  /\ UNCHANGED <<functions, live, ended, made, refs, freed, held, window,
                 windowRefs, threads, nullCall>>

\* Mutant: the size of the table is not checked.
InitializeAny(t) ==
  /\ functions = {}
  /\ t.compatible
  /\ functions' = Copied \cap t.functions
  /\ UNCHANGED <<entries, live, ended, made, refs, freed, held, window,
                 windowRefs, threads, nullCall>>

\* A table that is refused leaves NPNFuncs alone.
NP_Initialize(t) ==
  /\ functions = {}
  /\ t.compatible
  /\ Whole(t)
  /\ functions' = Copied
  /\ UNCHANGED <<entries, live, ended, made, refs, freed, held, window,
                 windowRefs, threads, nullCall>>

Loaded == entries # {} /\ functions # {}

-----------------------------------------------------------------------------
(* Instances.                                                              *)

\* The constructor of CPlugin takes the window, prepares the async handle and
\* starts a thread, for every instance.
CPlugin(i) ==
  /\ window' = i
  /\ windowRefs' = [windowRefs EXCEPT ![i] = @ + 1]
  /\ threads' = threads + 1

\* The destructor.
CPluginDestructor(i) ==
  /\ windowRefs' = IF window # NoInstance
                   THEN [windowRefs EXCEPT ![window] = @ - 1] ELSE windowRefs
  /\ refs' = IF i \in made THEN [refs EXCEPT ![i] = @ - 1] ELSE refs
  /\ freed' = IF i \in made /\ refs[i] = 1 THEN freed \cup {i} ELSE freed

NPP_New(i) ==
  /\ Loaded
  /\ live = {} /\ i \notin ended
  /\ live' = {i}
  /\ CPlugin(i)
  /\ Crossing("newp", {"getvalue"})
  /\ UNCHANGED <<entries, functions, ended, made, refs, freed, held>>

NPP_Destroy(i) ==
  /\ i \in live
  /\ live' = live \ {i}
  /\ ended' = ended \cup {i}
  /\ CPluginDestructor(i)
  /\ Crossing("destroy", {"releaseobject"})
  /\ UNCHANGED <<entries, functions, made, held, window, threads>>

\* Mutant: the reference passed to the browser is not taken.
ScriptableUnretained(i) ==
  /\ made' = made \cup {i}
  /\ refs' = [refs EXCEPT ![i] = IF i \in made THEN @ ELSE 1]

\* GetScriptableObject: made on the first call, retained for each caller.
GetScriptableObject(i) ==
  /\ made' = made \cup {i}
  /\ refs' = [refs EXCEPT ![i] = (IF i \in made THEN @ ELSE 1) + 1]

\* NPP_GetValue of NPPVpluginScriptableNPObject.
NPP_GetValue(i) ==
  /\ i \in live
  /\ held[i] < MaxHeld
  /\ GetScriptableObject(i)
  /\ held' = [held EXCEPT ![i] = @ + 1]
  /\ Crossing("getvalue", {"createobject", "retainobject", "getstringidentifier"})
  /\ UNCHANGED <<entries, functions, live, ended, freed, window, windowRefs,
                 threads>>

\* The page lets go of a reference, before or after the instance's end.
Release(i) ==
  /\ held[i] > 0
  /\ held' = [held EXCEPT ![i] = @ - 1]
  /\ refs' = [refs EXCEPT ![i] = @ - 1]
  /\ freed' = IF refs[i] = 1 THEN freed \cup {i} ELSE freed
  /\ UNCHANGED <<entries, functions, live, ended, made, window, windowRefs,
                 threads, nullCall>>

\* The entry points that only look at their instance: NPP_SetWindow, the
\* streams, NPP_HandleEvent and the others.
NPP_Stub(e) ==
  /\ live # {}
  /\ e \in EntryPoints \ {"newp", "destroy", "getvalue"}
  /\ Crossing(e, {})
  /\ UNCHANGED <<entries, functions, live, ended, made, refs, freed, held,
                 window, windowRefs, threads>>

\* The NPN_ functions behind the page's accesses and the worker's callbacks.
Gates == {"getstringidentifier", "createobject", "retainobject", "releaseobject",
          "getproperty", "setproperty", "invoke", "invokeDefault", "memalloc",
          "pluginthreadasynccall"}

\* The page reaches the plugin's objects through a live instance's NODE.
Access ==
  /\ \E i \in live : held[i] > 0
  /\ AccessNext
  /\ nullCall' = (nullCall \/ ~ Gates \subseteq functions)
  /\ UNCHANGED <<entries, functions, live, ended, made, refs, freed, held,
                 window, windowRefs, threads>>

Browser ==
  \/ NP_GetEntryPoints
  \/ \E t \in Tables : NP_Initialize(t)
  \/ \E i \in Instances : NPP_New(i) \/ NPP_Destroy(i) \/ NPP_GetValue(i) \/ Release(i)
  \/ \E e \in EntryPoints : NPP_Stub(e)

Next == (Browser /\ UNCHANGED accessVars) \/ Access
Spec == Init /\ [][Next]_vars

-----------------------------------------------------------------------------
(* Properties.                                                             *)

\* The scriptable object has one reference of its instance while that lives
\* and one for each the page holds; it is freed when the last one is given up
\* and no earlier, in whichever order the page and the instance go. The plugin
\* holds the window of the live instance's page, once, and no other
\* (plugin.cpp:94-114, 141-152).
ReferencesCounted ==
  /\ \A i \in Instances :
       refs[i] = (IF i \in made \cap live THEN 1 ELSE 0) + held[i]
  /\ freed = {i \in made : refs[i] = 0}
  /\ \A i \in Instances : windowRefs[i] = IF i \in live THEN 1 ELSE 0

\* Nothing is called through a table entry that was not filled: neither a gate
\* the plugin's code uses nor an entry point the browser uses, whatever tables
\* the browser comes with (np_entry.cpp:53-78, 96-154).
NoNullCall == ~nullCall
=============================================================================
