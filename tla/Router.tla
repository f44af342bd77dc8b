------------------------------- MODULE Router -------------------------------
(***************************************************************************)
(* request_router: which route a request takes, and the routes that mount  *)
(* makes for a directory.  A path is a sequence of "/", names and          *)
(* parameters; the regular expressions of path parts are reduced to        *)
(* parameters, which match everything, and names, which match themselves.  *)
(***************************************************************************)
EXTENDS Integers, Sequences, FiniteSetsExt, SequencesExt

CONSTANTS
    Names,   \* what is between slashes
    Params   \* and what is a parameter in a template, a name in a path

\* There is a slash between two names.
Paths ==
    {path \in Seq({"/"} \cup Names \cup Params) :
        \A i \in 1 .. Len(path) - 1 : "/" \in {path[i], path[i + 1]}}

MountMethods == {"GET", "PUT", "POST", "DELETE", "HEAD", "OPTIONS"}

\* A route: its template, and for a mounted directory the path it stands for.
Route(method, template, priority) ==
    [method |-> method, template |-> template, priority |-> priority,
     mount |-> FALSE, root |-> <<>>]

MountRoute(method, root, template, priority) ==
    [method |-> method, template |-> template, priority |-> priority,
     mount |-> TRUE, root |-> root]

-----------------------------------------------------------------------------
(* route and path_part.                                                    *)

Slashes(path) == {i \in DOMAIN path : path[i] = "/"}

\* What follows each "/" up to the next: boost::split without the first part.
Parts(path) ==
    LET cut(n) == CHOOSE i \in Slashes(path) \cup {Len(path) + 1} :
                      Cardinality({j \in Slashes(path) : j < i}) = n - 1
    IN [n \in 1 .. Cardinality(Slashes(path)) |-> SubSeq(path, cut(n) + 1, cut(n + 1) - 1)]

is_parameter(part) == part # <<>> /\ part[1] \in Params

part_matches(part, str) == is_parameter(part) \/ part = str

\* route::matches: the path.  A mounted directory asks for the front only.
path_matches(r, path) ==
    IF r.mount THEN IsPrefix(r.template, path)
    ELSE LET own == Parts(r.template)  asked == Parts(path)
         IN Len(own) = Len(asked) /\ \A i \in DOMAIN own : part_matches(own[i], asked[i])

matches(r, method, path) ==
    CASE ~path_matches(r, path) -> "no_match"
      [] path_matches(r, path) /\ r.method # method -> "path_match"
      [] OTHER -> "full_match"

\* get_path_parameters, without the names' colons.
get_path_parameters(r, path) ==
    LET own == Parts(r.template)
        params == {i \in DOMAIN own : ~r.mount /\ is_parameter(own[i])}
    IN [name \in {own[i] : i \in params} |-> Parts(path)[Max({i \in params : own[i] = name})]]

-----------------------------------------------------------------------------
(* request_router.  routes_ is a multimap in falling order of priority, in  *)
(* which routes of one priority keep the order they were added in.          *)

add_route(routes, r) ==
    InsertAt(routes, Cardinality({i \in DOMAIN routes : routes[i].priority >= r.priority}) + 1, r)

add_routes(routes, more) ==
    LET added[n \in 0 .. Len(more)] == IF n = 0 THEN routes ELSE add_route(added[n - 1], more[n])
    IN added[Len(more)]

\* mount: a route for each supported method, of which there must be one.
mount(routes, root, template, methods, priority) ==
    add_routes(routes, SetToSeq({MountRoute(m, root, template, priority) : m \in methods}))

\* Fault: the level of the last route counts.
find_route_last(routes, method, path) ==
    LET walk[n \in 0 .. Len(routes)] ==
            IF n = 0 THEN [found |-> 0, level |-> "no_match"]
            ELSE LET before == walk[n - 1]
                     level  == matches(routes[n], method, path)
                 IN CASE before.found # 0 -> before
                      [] before.found = 0 /\ level = "full_match" -> [found |-> n, level |-> level]
                      [] OTHER -> [before EXCEPT !.level = level]
    IN walk[Len(routes)]

\* find_route walks through the routes until one matches in full.
find_route(routes, method, path) ==
    LET walk[n \in 0 .. Len(routes)] ==
            IF n = 0 THEN [found |-> 0, level |-> "no_match"]
            ELSE LET before == walk[n - 1]
                     level  == matches(routes[n], method, path)
                 IN CASE before.found # 0 -> before
                      [] before.found = 0 /\ level = "full_match" -> [found |-> n, level |-> level]
                      [] before.found = 0 /\ level = "path_match" -> [before EXCEPT !.level = level]
                      [] OTHER -> before
    IN walk[Len(routes)]

-----------------------------------------------------------------------------
(* A mounted directory.                                                    *)

\* Fault: the template is cut off, and its slash with it.
mounted_path_cut(r, path) ==
    r.root \o SubSeq(path, Len(r.template) + 1, Len(path))

\* The file that a request is for: the template is cut off the path, and a
\* slash put in if neither side has one.
mounted_path(r, path) ==
    LET rest == SubSeq(path, Len(r.template) + 1, Len(path))
    IN r.root \o (IF Last(r.root) # "/" /\ (rest = <<>> \/ Head(rest) # "/") THEN <<"/">> ELSE <<>>)
              \o rest

\* What a part of a path leads to from a directory: ".." to the one above.
Entered(directory, part) ==
    CASE part = ".." /\ directory # <<>> -> Front(directory)
      [] part \in Names \ {".."} -> Append(directory, part)
      [] OTHER -> directory

\* The file that a path is for the file system.
Resolved(path) ==
    LET file[n \in 0 .. Len(path)] == IF n = 0 THEN <<>> ELSE Entered(file[n - 1], path[n])
    IN file[Len(path)]

\* "../" is looked for, and so a ".." that the path ends with passes.
validate_path(path) == \A i \in 1 .. Len(path) - 1 : ~(path[i] = ".." /\ path[i + 1] = "/")

=============================================================================
