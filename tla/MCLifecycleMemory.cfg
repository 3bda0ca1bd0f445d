SPECIFICATION Spec
INVARIANT ArenaOutlivesAsc
