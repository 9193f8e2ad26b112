------------------------------ MODULE MCWorktrees ------------------------------
EXTENDS Worktrees
SlugOf == [agent |-> "agent", nested |-> "auth", auth |-> "auth"]
================================================================================
