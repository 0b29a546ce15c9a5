------------------------- MODULE MCSaveApplication -------------------------
(* Bounds for TLC: small areas with every graph on them, collected once;   *)
(* and smaller ones that are purified, impurified, saved and loaded.       *)
EXTENDS GcTraps

CollectAreas ==
    {<<"raw", "cons", "cons">>, <<"vector", "cons">>,
     <<"cons", "function", "raw">>, <<"table", "hash", "cons">>, <<"symbol", "function">>,
     <<"raw", "vector", "raw">>}

SavedAreas ==
    {<<"cons", "function", "raw">>, <<"symbol", "function">>}

FreshAreas ==
    {<<"vector", "function">>, <<"table", "hash", "function">>, <<"cons", "function", "macptr">>}

Full == {"impurify", "purify", "save"}

WatchPrograms ==
    [port : {"x86"}, layout : {<<"table", "raw", "raw", "hash">>}, static : {"fresh package"}, frozen : {0},
     stack : {1}, limits : {{1}}, calls : {<<{"watch"}, {}, {"unwatch"}, {"rehash"}, {}>>}]
    \cup
    [port : {"x86"}, layout : {<<"cons", "vector">>}, static : {"saved package"}, frozen : {0},
     stack : {1}, limits : {{1}},
     calls : {<<{"watch"}, {}, {"watch"}, {"unwatch"}, {"unwatch"}, {"purify", "save"}>>}]

FrozenPrograms ==
    [port : {"x86"}, layout : {<<"vector", "cons">>}, static : {"fresh package"}, frozen : {2},
     stack : {1}, limits : {{0}}, calls : {<<{"freeze"}, {"watch"}, {}>>}]
    \cup
    [port : {"x86"}, layout : {<<"table", "hash", "cons">>}, static : {"fresh package"}, frozen : {4},
     stack : {1}, limits : {{1}}, calls : {<<{}, {"flash freeze"}, {"impurify", "save"}>>}]

(* A function that was made after the freeze, and refers to what was       *)
(* frozen before it.                                                       *)
FrozenConstants ==
    [port : {"x86"}, layout : {<<"cons", "cons", "function">>}, static : {"fresh package"}, frozen : {2},
     stack : {1}, limits : {{1}}, calls : {<<{"purify"}>>}]

(* An ivector that is the key of a hash vector, on the ARM and the PPC.      *)
IvectorKeys ==
    [port : {"arm", "ppc"}, layout : {<<"table", "hash", "raw">>}, static : {"fresh package"},
     frozen : {0}, stack : {1}, limits : {{1}}, calls : {<<{"purify"}>>}]

(* On the ARM and the PPC: code vectors, and addresses in their code.        *)
PortPrograms ==
    [port : {"arm"}, layout : {<<"raw", "arm code", "arm function">>}, static : {"none"},
     frozen : {0}, stack : {2}, limits : {{0, 1}}, calls : {<<{}>>}]
    \cup
    [port : {"arm"},
     layout : {<<"raw", "arm code", "arm function">>,
               <<"arm code", "arm function", "arm function">>},
     static : {"fresh package"}, frozen : {0}, stack : {2}, limits : {{0}},
     calls : {<<{"purify", "save"}, {"impurify", "purify", "save"}>>}]
    \cup
    [port : {"arm"}, layout : {<<"table", "hash", "arm code">>}, static : {"fresh package"},
     frozen : {4}, stack : {1}, limits : {{1}}, calls : {<<{}, {"flash freeze"}, {"rehash"}, {}>>}]
    \cup
    [port : {"ppc"}, layout : {<<"raw", "ppc code", "ppc function">>}, static : {"none"},
     frozen : {0}, stack : {2}, limits : {{0, 1}}, calls : {<<{}>>}]
    \cup
    [port : {"ppc"}, layout : {<<"ppc code", "raw", "ppc function">>},
     static : {"fresh package"}, frozen : {0}, stack : {2}, limits : {{0}},
     calls : {<<{"freeze"}, {}>>, <<{"purify", "save"}, {"impurify", "purify", "save"}>>}]

SmallPrograms ==
    [port : {"x86"}, layout : CollectAreas, static : {"none"}, frozen : {0}, stack : {1}, limits : {{0, 1}},
     calls : {<<{}>>}]
    \cup
    [port : {"x86"}, layout : SavedAreas, static : {"saved package"}, frozen : {0}, stack : {1}, limits : {{1}},
     calls : {<<{"purify", "save"}, Full>>}]
    \cup
    [port : {"x86"}, layout : {<<"cons", "function", "closure">>}, static : {"saved package"},
     frozen : {0}, stack : {1}, limits : {{1}}, calls : {<<{"purify"}>>}]
    \cup
    [port : {"x86"}, layout : FreshAreas, static : {"fresh package"}, frozen : {0}, stack : {1}, limits : {{1}},
     calls : {<<{"purify", "save"}, Full>>}]
    \cup
    [port : {"x86"}, layout : {<<"function", "function">>}, static : {"fresh package"}, frozen : {0}, stack : {1},
     limits : {{0}}, calls : {<<{"purify"}>>}]
    \cup
    [port : {"x86"}, layout : {<<"cons", "function">>}, static : {"fresh package"}, frozen : {0}, stack : {2},
     limits : {{1}}, calls : {<<{"save"}, {"purify", "save"}>>}]
    \cup WatchPrograms \cup FrozenPrograms \cup PortPrograms

Distances == {0, 1000}
=============================================================================
