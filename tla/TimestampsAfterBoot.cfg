SPECIFICATION Spec
INVARIANT TimestampsAhead
