--------------------------- MODULE MCModuleLoading ---------------------------
(* Model-checking instances of ModuleLoading: package lib has the exported  *)
(* file api and the internal file util; package app has the file main.      *)
EXTENDS ModuleLoading

CONSTANTS lib, app, api, util, main, pipe

Manifests == {lib, app}
Sources == {api, util, main}
Operators == {pipe}
MemberLists == lib :> <<api, util>> @@ app :> <<main>>
Public == lib :> {api} @@ app :> {main}
Identifiers == api :> "api" @@ util :> "util" @@ main :> "main"

OwnNames == lib :> "lib" @@ app :> "app"
SameName == lib :> "lib" @@ app :> "lib"

Source(status, operator, offset, uses) ==
  [status |-> status, operator |-> operator, offset |-> offset, uses |-> uses]
Plain == Source("ok", None, 0, {})

(* Nothing changes: api declares the operator that util uses.               *)
Fixed ==
  api :> {Source("ok", pipe, 1, {})} @@ util :> {Source("ok", None, 0, {pipe})}
  @@ main :> {Plain}

(* util declares an operator that api uses, or declares as well after an    *)
(* edit.  main has a grammar of its own: an edit moves its declaration and  *)
(* breaks it; it is removed and comes back.                                 *)
Editable ==
  api :> {Source("ok", None, 0, {pipe}), Source("ok", pipe, 1, {})}
  @@ util :> {Source("ok", pipe, 1, {})}
  @@ main :> {Source("ok", pipe, 1, {}), Source("broken", pipe, 2, {}),
              Source("missing", None, 0, {})}

Swapped == {<<lib, app>>, <<app, lib>>}
Shortened == {<<lib, app>>, <<lib>>}
=============================================================================
