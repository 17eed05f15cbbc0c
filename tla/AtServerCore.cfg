SPECIFICATION ServerSpec
CONSTANT Fds = {0, 1, 2}
INVARIANTS ServerTypeOK TokenExact ServesOwn 
