\* Two requests at once, a start that overrides, any call may fail.
SPECIFICATION Spec
CONSTANTS
    Handlers = {h1, h2}
    Main = main
    Tokens = {t1, t2}
    Classes = {nginx, traefik}
    Nginx = nginx
    EnvClasses = {traefik, None}
    EnvTokens = {t1, None}
    Empty = Empty
    None = None
SYMMETRY Symmetry
INVARIANTS TypeOK KnownSettingsReadable UndisturbedRepairs
